---------------------------- MODULE Spec2Model ----------------------------
(***************************************************************************)
(* A model of the QEx mesh extractor (thirdparty/libQEx/src/               *)
(* MeshExtractorT.cc): transition functions, consistent truncation, grid   *)
(* vertex generation, the connector (face tracing), the incomplete-fan     *)
(* repair and the face assembly, run on small concrete input meshes.       *)
(*                                                                         *)
(* Numbers.  A UV coordinate x is stored as the integer 2*x ("half         *)
(* units"), so that the half-integer UVs of singular vertices are exact.   *)
(* An integer lattice point is a point with two even coordinates.  The     *)
(* translation of a transition function is kept in whole units, as in the  *)
(* source (int tu, tv).                                                    *)
(***************************************************************************)
EXTENDS Integers, Sequences, FiniteSets, TLC

(***************************************************************************)
(* Small helpers of the model.                                             *)
(***************************************************************************)
Sgn(x) == IF x > 0 THEN 1 ELSE IF x < 0 THEN -1 ELSE 0
Abs(x) == IF x < 0 THEN -x ELSE x
Min2(a, b) == IF a < b THEN a ELSE b
Max2(a, b) == IF a > b THEN a ELSE b
MinOf(S) == CHOOSE x \in S : \A y \in S : x <= y
MaxOf(S) == CHOOSE x \in S : \A y \in S : x >= y

RECURSIVE SortedSeq(_)
SortedSeq(S) == IF S = {} THEN << >> ELSE <<MinOf(S)>> \o SortedSeq(S \ {MinOf(S)})

RECURSIVE ReverseSeq(_)
ReverseSeq(s) == IF s = << >> THEN << >> ELSE ReverseSeq(Tail(s)) \o <<Head(s)>>

\* std::rotate(first, first + mid, last) on the whole sequence: s[mid..] then s[..mid-1]
\* (mid is a 0-based offset).
RotateSeq(s, mid) == SubSeq(s, mid + 1, Len(s)) \o SubSeq(s, 1, mid)

(***************************************************************************)
(* TransitionFunction: (r, tu, tv); a point is rotated by r*90 degrees     *)
(* about the origin and then translated by (tu, tv).                       *)
(***************************************************************************)
TF(r, tu, tv) == [r |-> r, tu |-> tu, tv |-> tv]
IDENTITY == TF(0, 0, 0)

\* multiplication of the point (as a complex number) by i^k
Rot(k, p) ==
    CASE k = 0 -> p
      [] k = 1 -> <<-p[2], p[1]>>
      [] k = 2 -> <<-p[1], -p[2]>>
      [] k = 3 -> <<p[2], -p[1]>>

\* TF::transform_point on a point in half units
transform_point(tf, p) ==
    LET q == Rot(tf.r, p) IN <<q[1] + 2 * tf.tu, q[2] + 2 * tf.tv>>

\* TF::operator*: (a * b)(p) = a(b(p))
TFMul(a, b) ==
    LET t == Rot(a.r, <<b.tu, b.tv>>)
    IN  TF((a.r + b.r) % 4, t[1] + a.tu, t[2] + a.tv)

\* TF::inverse
TFInverse(a) ==
    LET k == (4 - a.r) % 4
        t == Rot(k, <<a.tu, a.tv>>)
    IN  TF(k, -t[1], -t[2])

(***************************************************************************)
(* Exact 2D predicates of the geometry kernel.  Orientations are 1         *)
(* (ORI_POSITIVE, ORI_CCW), -1 (ORI_NEGATIVE, ORI_CW) and 0 (ORI_ZERO,     *)
(* ORI_COLLINEAR).                                                         *)
(***************************************************************************)
VSub(a, b) == <<a[1] - b[1], a[2] - b[2]>>
VAdd(a, b) == <<a[1] + b[1], a[2] + b[2]>>
Dot(a, b) == a[1] * b[1] + a[2] * b[2]
Cross(a, b, c) == (b[1] - a[1]) * (c[2] - a[2]) - (b[2] - a[2]) * (c[1] - a[1])

orient2d(a, b, c) == Sgn(Cross(a, b, c))
\* orient2d of two vectors (origin, u, v)
orient2dv(u, v) == Sgn(u[1] * v[2] - u[2] * v[1])
is_collinear(a, b, c) == orient2d(a, b, c) = 0

\* Triangle_2::orientation
TriOrientation(t) == orient2d(t[1], t[2], t[3])
TriIsDegenerate(t) == TriOrientation(t) = 0

\* Segment_2::has_on: p lies on the closed segment a-b
SegHasOn(a, b, p) ==
    /\ Cross(a, b, p) = 0
    /\ Min2(a[1], b[1]) <= p[1] /\ p[1] <= Max2(a[1], b[1])
    /\ Min2(a[2], b[2]) <= p[2] /\ p[2] <= Max2(a[2], b[2])

\* Segment_2::intersects: the closed segments a-b and c-d share a point
SegIntersects(a, b, c, d) ==
    LET o1 == orient2d(a, b, c)
        o2 == orient2d(a, b, d)
        o3 == orient2d(c, d, a)
        o4 == orient2d(c, d, b)
    IN  \/ (o1 # o2 /\ o3 # o4)
        \/ SegHasOn(a, b, c) \/ SegHasOn(a, b, d)
        \/ SegHasOn(c, d, a) \/ SegHasOn(c, d, b)

\* Triangle_2::boundedness: "in" (BND_ON_BOUNDED_SIDE), "on" (BND_ON_BOUNDARY),
\* "out" (BND_ON_UNBOUNDED_SIDE)
TriBoundedness(t, p) ==
    LET o  == TriOrientation(t)
        o1 == orient2d(t[1], t[2], p)
        o2 == orient2d(t[2], t[3], p)
        o3 == orient2d(t[3], t[1], p)
    IN  IF o = 0
        THEN IF SegHasOn(t[1], t[2], p) \/ SegHasOn(t[2], t[3], p) \/ SegHasOn(t[3], t[1], p)
             THEN "on" ELSE "out"
        ELSE IF o1 = o /\ o2 = o /\ o3 = o THEN "in"
             ELSE IF o1 = -o \/ o2 = -o \/ o3 = -o THEN "out"
             ELSE "on"

has_on_bounded_side(t, p) == TriBoundedness(t, p) = "in"


(***************************************************************************)
(* The input triangle mesh (an OpenMesh halfedge mesh, read only).  An     *)
(* input is given by its faces (vertex triples) and its per-corner UVs.    *)
(* Halfedge 3f+k is the halfedge of face f that points to corner k, so     *)
(* halfedge_handle(f) = 3f points to corner 0; a boundary halfedge is      *)
(* numbered 3*n_faces + (its opposite).  An edge is named by its halfedge  *)
(* 0, the halfedge of the first face that holds the edge.                  *)
(***************************************************************************)
NFaces(M) == Len(M.faces)
IntHE(M) == 0 .. (3 * NFaces(M) - 1)
IntTo(M, h) == M.faces[(h \div 3) + 1][(h % 3) + 1]
IntFrom(M, h) == M.faces[(h \div 3) + 1][((h + 2) % 3) + 1]
IntTwin(M, h) == {g \in IntHE(M) : IntFrom(M, g) = IntTo(M, h) /\ IntTo(M, g) = IntFrom(M, h)}
BndHE(M) == {h + 3 * NFaces(M) : h \in {g \in IntHE(M) : IntTwin(M, g) = {}}}

MeshOpp(M, h) ==
    IF h >= 3 * NFaces(M) THEN h - 3 * NFaces(M)
    ELSE IF IntTwin(M, h) # {} THEN CHOOSE g \in IntTwin(M, h) : TRUE
    ELSE h + 3 * NFaces(M)
MeshTo(M, h) == IF h >= 3 * NFaces(M) THEN IntFrom(M, h - 3 * NFaces(M)) ELSE IntTo(M, h)
MeshFrom(M, h) == IF h >= 3 * NFaces(M) THEN IntTo(M, h - 3 * NFaces(M)) ELSE IntFrom(M, h)
MeshNext(M, h) ==
    IF h >= 3 * NFaces(M)
    THEN CHOOSE b \in BndHE(M) : MeshFrom(M, b) = MeshTo(M, h)
    ELSE 3 * (h \div 3) + ((h + 1) % 3)
MeshPrev(M, h) ==
    IF h >= 3 * NFaces(M)
    THEN CHOOSE b \in BndHE(M) : MeshTo(M, b) = MeshFrom(M, h)
    ELSE 3 * (h \div 3) + ((h + 2) % 3)
\* halfedge_handle(vh): an outgoing halfedge, the boundary one at a boundary vertex
MeshVOut(M, v) ==
    IF \E b \in BndHE(M) : MeshFrom(M, b) = v
    THEN CHOOSE b \in BndHE(M) : MeshFrom(M, b) = v
    ELSE MinOf({h \in IntHE(M) : IntFrom(M, h) = v})

\* The incoming halfedges of v as the circulator vih_iter(v) yields them with ++
\* (clockwise): it starts at opposite(halfedge_handle(v)) and steps the outgoing
\* halfedge o to next(opposite(o)).
RECURSIVE VihFrom(_, _, _, _)
VihFrom(M, o, start, first) ==
    IF o = start /\ ~first THEN << >>
    ELSE <<MeshOpp(M, o)>> \o VihFrom(M, MeshNext(M, MeshOpp(M, o)), start, FALSE)
MeshVih(M, v) == VihFrom(M, MeshVOut(M, v), MeshVOut(M, v), TRUE)

MeshTab(M) ==
    LET HEs == IntHE(M) \cup BndHE(M)
        Vs  == 0 .. (M.nv - 1)
    IN  [ nf    |-> NFaces(M),
          nv    |-> M.nv,
          he    |-> HEs,
          opp   |-> [h \in HEs |-> MeshOpp(M, h)],
          nxt   |-> [h \in HEs |-> MeshNext(M, h)],
          prv   |-> [h \in HEs |-> MeshPrev(M, h)],
          to    |-> [h \in HEs |-> MeshTo(M, h)],
          vout  |-> [v \in Vs |-> MeshVOut(M, v)],
          vih   |-> [v \in Vs |-> MeshVih(M, v)],
          edges |-> SortedSeq({h \in IntHE(M) : MeshOpp(M, h) > h}),
          uv0   |-> [h \in HEs |-> IF h < 3 * NFaces(M)
                                   THEN M.fuv[(h \div 3) + 1][(h % 3) + 1]
                                   ELSE <<0, 0>>],
          ext   |-> M.ext,
          flagged |-> M.flagged ]


(***************************************************************************)
(* The inputs the model runs on (UVs in half units).                       *)
(***************************************************************************)
\* the chart of face f (1-based) of input M replaced by its image under g
Regauge(M, f, g) ==
    [M EXCEPT !.fuv[f] = <<transform_point(g, M.fuv[f][1]),
                            transform_point(g, M.fuv[f][2]),
                            transform_point(g, M.fuv[f][3])>>]

\* two triangles, the square [0,2]^2 cut along its diagonal
InSquare ==
    [ nv |-> 4, ext |-> << >>, flagged |-> {},
      faces |-> << <<0, 1, 2>>, <<0, 2, 3>> >>,
      fuv   |-> << << <<0, 0>>, <<4, 0>>, <<4, 4>> >>,
                   << <<0, 0>>, <<4, 4>>, <<0, 4>> >> >> ]

\* a fan of three triangles around the interior vertex 0 at (1,1) that spans a
\* quarter turn: vertex 0 is a singularity of valence 1; in the first triangle
\* its UV is off by half a unit, as with noisy input
InCone1 ==
    [ nv |-> 4, ext |-> << >>, flagged |-> {},
      faces |-> << <<0, 1, 2>>, <<0, 2, 3>>, <<0, 3, 1>> >>,
      fuv   |-> << << <<3, 2>>, <<6, 2>>, <<6, 6>> >>,
                   << <<2, 2>>, <<6, 6>>, <<4, 6>> >>,
                   << <<2, 2>>, <<4, 6>>, <<2, 6>> >> >> ]

\* two triangles between the boundary points (0,2), (0,1), (1,0), (2,0): the grid
\* vertices form a path, no quad
InPath ==
    [ nv |-> 4, ext |-> << >>, flagged |-> {},
      faces |-> << <<0, 1, 2>>, <<0, 2, 3>> >>,
      fuv   |-> << << <<0, 4>>, <<0, 2>>, <<2, 0>> >>,
                   << <<0, 4>>, <<2, 0>>, <<4, 0>> >> >> ]

\* two triangles of which the first is folded over (negative orientation)
InFoldedPair ==
    [ nv |-> 4, ext |-> << >>, flagged |-> {},
      faces |-> << <<0, 1, 2>>, <<0, 2, 3>> >>,
      fuv   |-> << << <<2, 0>>, <<0, 2>>, <<0, 4>> >>,
                   << <<2, 0>>, <<0, 4>>, <<0, 0>> >> >> ]

\* a strip of three triangles with vertices at half-integer UVs: the grid line
\* v = 1 runs through mesh vertex 2 and along the edge 2-3
InStrip ==
    [ nv |-> 5, ext |-> << >>, flagged |-> {},
      faces |-> << <<0, 1, 2>>, <<2, 1, 3>>, <<2, 3, 4>> >>,
      fuv   |-> << << <<1, 0>>, <<4, 3>>, <<1, 2>> >>,
                   << <<1, 2>>, <<4, 3>>, <<0, 2>> >>,
                   << <<1, 2>>, <<0, 2>>, <<4, 1>> >> >> ]

\* a fan of four triangles around the interior vertex 0 whose last chart holds
\* vertex 0 two units higher than the others: not seamless, the transition
\* around vertex 0 is a shift
InShift ==
    [ nv |-> 5, ext |-> << >>, flagged |-> {},
      faces |-> << <<0, 1, 2>>, <<0, 2, 3>>, <<0, 3, 4>>, <<0, 4, 1>> >>,
      fuv   |-> << << <<2, 2>>, <<2, 0>>, <<4, 4>> >>,
                   << <<2, 2>>, <<4, 4>>, <<2, 4>> >>,
                   << <<2, 2>>, <<2, 4>>, <<0, 0>> >>,
                   << <<2, 6>>, <<0, 0>>, <<2, 0>> >> >> ]

\* the fan of InShift with vertex 0 held one unit to the left in the last chart:
\* the transition around vertex 0 is a shift by one unit
InUnitShift ==
    [ nv |-> 5, ext |-> << >>, flagged |-> {},
      faces |-> << <<0, 1, 2>>, <<0, 2, 3>>, <<0, 3, 4>>, <<0, 4, 1>> >>,
      fuv   |-> << << <<2, 2>>, <<2, 0>>, <<4, 4>> >>,
                   << <<2, 2>>, <<4, 4>>, <<2, 4>> >>,
                   << <<2, 2>>, <<2, 4>>, <<0, 0>> >>,
                   << <<0, 2>>, <<0, 0>>, <<2, 0>> >> >> ]

\* a seamless fan of four triangles around the interior vertex 0 at (1,1), with
\* external valences that give vertex 0 the valence 3
InValence ==
    [ nv |-> 5, ext |-> <<3, 2, 2, 2, 2>>, flagged |-> {},
      faces |-> << <<0, 1, 2>>, <<0, 2, 3>>, <<0, 3, 4>>, <<0, 4, 1>> >>,
      fuv   |-> << << <<2, 2>>, <<2, 0>>, <<4, 4>> >>,
                   << <<2, 2>>, <<4, 4>>, <<2, 4>> >>,
                   << <<2, 2>>, <<2, 4>>, <<0, 0>> >>,
                   << <<2, 2>>, <<0, 0>>, <<2, 0>> >> >> ]

\* a fan of slivers around the boundary vertex 0 at (2.5, 2): the grid line v = 1
\* crosses three of its edges between the grid points (2,1) and (3,1); the last
\* triangle of the fan is collapsed (vertices 6 and 7 share their UV), and a
\* collapsed needle (vertices 2 and 8 share their UV) hangs at the edge 1-2
InSliver ==
    [ nv |-> 9, ext |-> << >>, flagged |-> {},
      faces |-> << <<0, 1, 2>>, <<0, 2, 3>>, <<0, 3, 4>>, <<0, 4, 5>>, <<0, 5, 6>>,
                   <<0, 6, 7>>, <<2, 1, 8>> >>,
      fuv   |-> << << <<5, 4>>, <<0, 0>>, <<1, 0>> >>,
                   << <<5, 4>>, <<1, 0>>, <<4, 0>> >>,
                   << <<5, 4>>, <<4, 0>>, <<5, 0>> >>,
                   << <<5, 4>>, <<5, 0>>, <<6, 0>> >>,
                   << <<5, 4>>, <<6, 0>>, <<8, 0>> >>,
                   << <<5, 4>>, <<8, 0>>, <<8, 0>> >>,
                   << <<1, 0>>, <<0, 0>>, <<1, 0>> >> >> ]

\* a folded fan of three triangles around the interior vertex 0
InFoldedFan ==
    [ nv |-> 4, ext |-> << >>, flagged |-> {},
      faces |-> << <<0, 1, 2>>, <<0, 2, 3>>, <<0, 3, 1>> >>,
      fuv   |-> << << <<0, 4>>, <<4, 4>>, <<3, 2>> >>,
                   << <<0, 4>>, <<3, 2>>, <<3, 0>> >>,
                   << <<0, 4>>, <<3, 0>>, <<4, 4>> >> >> ]

\* six triangles around the interior vertices 0 and 1, folded so that the boundary
\* vertex 3 lies on vertex 1 in the UV plane
InOverlap ==
    [ nv |-> 6, ext |-> << >>, flagged |-> {},
      faces |-> << <<2, 3, 0>>, <<3, 4, 0>>, <<4, 1, 0>>, <<4, 5, 1>>, <<5, 2, 1>>,
                   <<2, 0, 1>> >>,
      fuv   |-> << << <<4, 2>>, <<2, 0>>, <<2, 2>> >>,
                   << <<2, 0>>, <<0, 0>>, <<2, 2>> >>,
                   << <<0, 0>>, <<2, 0>>, <<2, 2>> >>,
                   << <<0, 0>>, <<2, 4>>, <<2, 0>> >>,
                   << <<2, 4>>, <<4, 2>>, <<2, 0>> >>,
                   << <<4, 2>>, <<2, 2>>, <<2, 0>> >> >> ]

MeshIn == << InSquare,
             Regauge(InSquare, 2, TF(1, 1, 0)),
             InCone1,
             InPath,
             InFoldedPair,
             InStrip,
             InShift,
             InUnitShift,
             InValence,
             InSliver,
             InFoldedFan,
             InOverlap,
             Regauge(Regauge(InSliver, 3, TF(1, 1, 0)), 4, TF(2, 0, 1)) >>

Meshes == [k \in 1 .. Len(MeshIn) |-> MeshTab(MeshIn[k])]

VARIABLES
    m,            \* the input tri_mesh_, as the table MeshTab of its connectivity
    precision,    \* the number of significand bits of the build's double
    pc,           \* the step of extract() that runs next
    uv,           \* uv_coords: halfedge -> UV of its to-vertex in its face
    tf_,          \* tf_: edge -> transition function
    decimated,    \* extract()'s local flag
    decimator_reports,
                  \* what decimator.decimate() has returned, call by call
    log,          \* the diagnostics written to std::cerr, as a set of tags
    gvertices_,   \* gvertices_: the grid vertices; gvertex i is gvertices_[i + 1]
    face_gvertices_, edge_gvertices_, vertex_gvertices_,
                  \* mesh element -> the indices of the gvertices on it
    edge_valid_,  \* edge_valid_: edge -> its UV segment is not degenerate
    loop,         \* the position of the loop that runs in the current step
    threw,        \* a std::logic_error left extract()
    requested, released,
                  \* the properties of tri_mesh_ that extract() has requested
                  \* (request_face_colors, request_vertex_status) and released
    quad_mesh     \* _quad_mesh and heLocalUvProp

inputVars == <<m, precision, pc, uv, tf_, decimated, decimator_reports, log, loop, threw,
               requested, released>>
gvVars == <<gvertices_, face_gvertices_, edge_gvertices_, vertex_gvertices_, edge_valid_>>
vars == <<inputVars, gvVars, quad_mesh>>

Mesh == m
opposite_halfedge_handle(h) == Mesh.opp[h]
next_halfedge_handle(h) == Mesh.nxt[h]
prev_halfedge_handle(h) == Mesh.prv[h]
to_vertex_handle(h) == Mesh.to[h]
is_boundary_he(h) == h >= 3 * Mesh.nf
face_handle(h) == IF is_boundary_he(h) THEN -1 ELSE h \div 3
edge_handle(h) == IF h < Mesh.opp[h] THEN h ELSE Mesh.opp[h]
is_boundary_edge(e) == is_boundary_he(Mesh.opp[e])
is_boundary_vertex(v) == is_boundary_he(Mesh.vout[v])

(***************************************************************************)
(* extract_transition_functions                                            *)
(***************************************************************************)
\* ROUND_QME(2 * arg(re + i*im) / pi) mod 4 for the ratio (r0-r1)/(l0-l1), whose
\* argument is that of (r0-r1)*conj(l0-l1) = re + i*im
RotationOf(re, im) ==
    IF re > 0 /\ Abs(im) < re THEN 0
    ELSE IF im > 0 /\ -im < re /\ re <= im THEN 1
    ELSE IF im < 0 /\ im < re /\ re <= -im THEN 3
    ELSE 2

\* ROUND_QME(x) of x = c/2 given in half units (round half away from zero)
RoundHalf(c) == IF c < 0 THEN -((1 - c) \div 2) ELSE (c + 1) \div 2

\* EdgeTF with the shift taken between the unrotated end points
EdgeTFUnrotatedShift(l0, l1, r0, r1) ==
    LET a  == VSub(r0, r1)
        c  == VSub(l0, l1)
        r  == RotationOf(Dot(a, c), a[2] * c[1] - a[1] * c[2])
        t  == VSub(r0, l0)
    IN  TF(r, RoundHalf(t[1]), RoundHalf(t[2]))

\* the transition function of an interior edge from the four end UVs
EdgeTF(l0, l1, r0, r1) ==
    LET a  == VSub(r0, r1)
        c  == VSub(l0, l1)
        r  == RotationOf(Dot(a, c), a[2] * c[1] - a[1] * c[2])
        t  == VSub(r0, Rot(r, l0))
    IN  TF(r, RoundHalf(t[1]), RoundHalf(t[2]))

extract_transition_functions(uvc) ==
    [e \in {Mesh.edges[k] : k \in 1 .. Len(Mesh.edges)} |->
        IF is_boundary_edge(e) THEN TF(0, 0, 0)
        ELSE EdgeTF(uvc[e], uvc[prev_halfedge_handle(e)],
                    uvc[prev_halfedge_handle(opposite_halfedge_handle(e))],
                    uvc[opposite_halfedge_handle(e)])]

\* transition(heh): from the chart of heh's face into the chart of the opposite face
transitionHE(h) ==
    IF h = edge_handle(h) THEN tf_[edge_handle(h)] ELSE TFInverse(tf_[edge_handle(h)])

\* transition(vh): the composition of the edge transitions around an interior vertex
RECURSIVE ComposeAround(_, _, _)
ComposeAround(vih, k, tf) ==
    IF k > Len(vih) THEN tf
    ELSE ComposeAround(vih, k + 1, TFMul(transitionHE(opposite_halfedge_handle(vih[k])), tf))
transitionV(v) ==
    IF is_boundary_vertex(v) THEN IDENTITY
    ELSE TFMul(transitionHE(opposite_halfedge_handle(Mesh.vih[v][1])),
               ComposeAround(Mesh.vih[v], 2, TF(0, 0, 0)))


(***************************************************************************)
(* consistent_truncation                                                   *)
(***************************************************************************)
IsLatticeCoord(c) == c % 2 = 0

\* ROUND_QME(x) of x = c / unit (round half away from zero)
ROUND_QME(c, unit) ==
    IF c < 0 THEN -((unit - 2 * c) \div (2 * unit)) ELSE (2 * c + unit) \div (2 * unit)

\* 1 / 1e-4
SnapToleranceInverse == 10000
\* fabs(x - ROUND_QME(x)) < 1e-4 for x = c / unit
WithinSnapTolerance(c, unit) ==
    Abs(c - unit * ROUND_QME(c, unit)) * SnapToleranceInverse < unit

\* SnapAxis that snaps only two values that are near the same integer
SnapAxisToSameInteger(uvc, h0, h1, ax, unit) ==
    IF /\ WithinSnapTolerance(uvc[h0][ax], unit) /\ WithinSnapTolerance(uvc[h1][ax], unit)
       /\ ROUND_QME(uvc[h0][ax], unit) = ROUND_QME(uvc[h1][ax], unit)
    THEN [uvc EXCEPT ![h0][ax] = unit * ROUND_QME(uvc[h0][ax], unit),
                     ![h1][ax] = unit * ROUND_QME(uvc[h1][ax], unit)]
    ELSE uvc

\* the snap of one axis (1 or 2) of the two halfedges of a selected or feature
\* boundary edge, for UVs held in 1/unit: both values within 1e-4 of an integer
\* are replaced by it.  (In half units, unit = 2, a value is within 1e-4 of an
\* integer exactly when it is one.)
SnapAxis(uvc, h0, h1, ax, unit) ==
    IF WithinSnapTolerance(uvc[h0][ax], unit) /\ WithinSnapTolerance(uvc[h1][ax], unit)
    THEN [uvc EXCEPT ![h0][ax] = unit * ROUND_QME(uvc[h0][ax], unit),
                     ![h1][ax] = unit * ROUND_QME(uvc[h1][ax], unit)]
    ELSE uvc

RECURSIVE BoundarySnap(_, _, _)
BoundarySnap(uvc, k, unit) ==
    IF k > Len(Mesh.edges) THEN uvc
    ELSE LET e == Mesh.edges[k]
         IN  IF is_boundary_edge(e) /\ e \in Mesh.flagged
             THEN BoundarySnap(SnapAxis(SnapAxis(uvc, e, opposite_halfedge_handle(e), 1, unit),
                                        e, opposite_halfedge_handle(e), 2, unit),
                               k + 1, unit)
             ELSE BoundarySnap(uvc, k + 1, unit)

\* Doubles.  A double holds `precision' significand bits; the result of an
\* addition is the nearest double, ties to the even significand.  x is rounded
\* to the multiples of unit (both in half units of UV).
RoundToEven(x, unit) ==
    LET q == x \div unit
        r == x % unit
    IN  IF 2 * r < unit THEN q * unit
        ELSE IF 2 * r > unit THEN (q + 1) * unit
        ELSE IF q % 2 = 0 THEN q * unit ELSE (q + 1) * unit

\* the smallest j >= k with 2^j >= n
RECURSIVE CeilLog2(_, _)
CeilLog2(n, k) == IF 2 ^ k >= n THEN k ELSE CeilLog2(n, k + 1)
\* the largest j >= k with 2^j <= n, for n >= 2^k
RECURSIVE FloorLog2(_, _)
FloorLog2(n, k) == IF 2 ^ (k + 1) > n THEN k ELSE FloorLog2(n, k + 1)

\* the double nearest to x (x in half units): a value below 2^precision half
\* units is held exactly
RoundToDouble(x) ==
    IF x = 0 THEN 0
    ELSE LET ulp == FloorLog2(Abs(x), 0) - precision + 1
         IN  IF ulp <= 0 THEN x ELSE RoundToEven(x, 2 ^ ulp)
RoundPointToDouble(pt) == <<RoundToDouble(pt[1]), RoundToDouble(pt[2])>>

\* max_v = 2^(ceil(log2(max_u_abs + max_trans_abs + 1)) + 1) for vertex v, as the
\* exponent e of max_v = 2^e half units
MaxVExponent(uvc, v) ==
    LET vih == Mesh.vih[v]
        ins == {k \in 1 .. Len(vih) : ~is_boundary_he(vih[k])}
        max_u_abs == MaxOf({0} \cup {Abs(uvc[vih[k]][ax]) : k \in ins, ax \in 1 .. 2})
        inner == {k \in ins : ~is_boundary_he(opposite_halfedge_handle(vih[k]))}
        max_trans_abs ==
            MaxOf({0} \cup {Abs(tf_[edge_handle(vih[k])].tu) : k \in inner}
                      \cup {Abs(tf_[edge_handle(vih[k])].tv) : k \in inner})
    IN  CeilLog2(max_u_abs + 2 * max_trans_abs + 2, 0) + 1

\* "clear critical bits": x += max_v; x -= max_v.  The sum lies in [max_v,
\* 2 max_v) for x >= 0 and in [max_v / 2, max_v) for x < 0, where the doubles are
\* 2^(e - precision + 1) and 2^(e - precision) half units apart; the difference
\* is exact.
ClearCriticalBits(x, e) ==
    LET ulp == e - precision + (IF x < 0 THEN 0 ELSE 1)
    IN  IF ulp <= 0 THEN x ELSE RoundToEven(x, 2 ^ ulp)

\* FixedPoint with the closed form of the half turn used for every rotation
FixedPointOfHalfTurn(vtrans) == <<vtrans.tu, vtrans.tv>>

\* the fixed point (in half units) of a vertex transition with rotation 1, 2 or 3
FixedPoint(vtrans) ==
    CASE vtrans.r = 1 -> <<vtrans.tu - vtrans.tv, vtrans.tu + vtrans.tv>>
      [] vtrans.r = 2 -> <<vtrans.tu, vtrans.tv>>
      [] vtrans.r = 3 -> <<vtrans.tu + vtrans.tv, vtrans.tv - vtrans.tu>>

\* the anchor UV of vertex v after the correction of irregular vertices
AnchorUV(uvc, v) ==
    LET heh    == Mesh.vih[v][1]
        vtrans == transitionV(v)
        e      == MaxVExponent(uvc, v)
    IN  IF ~is_boundary_vertex(v) /\ vtrans # IDENTITY /\ vtrans.r # 0
        THEN RoundPointToDouble(FixedPoint(vtrans))
        ELSE <<ClearCriticalBits(uvc[heh][1], e), ClearCriticalBits(uvc[heh][2], e)>>

\* ReportsInconsistency for every shift without rotation, whatever its length
ReportsInconsistencyOfAnyShift(v) ==
    /\ ~is_boundary_vertex(v)
    /\ transitionV(v) # IDENTITY
    /\ transitionV(v).r = 0

\* "non-identity transition function cannot have a different rotation than 1,2,3"
ReportsInconsistency(v) ==
    LET vtrans == transitionV(v)
    IN  /\ ~is_boundary_vertex(v)
        /\ vtrans # IDENTITY
        /\ vtrans.r = 0
        /\ Abs(vtrans.tu) + Abs(vtrans.tv) > 1

\* propagate in one-ring: from the second incoming halfedge on
RECURSIVE Propagate(_, _, _, _)
Propagate(uvc, vih, k, cur) ==
    IF k > Len(vih) THEN uvc
    ELSE IF ~is_boundary_he(vih[k])
         THEN LET nxt == RoundPointToDouble(
                             transform_point(transitionHE(opposite_halfedge_handle(vih[k])),
                                             cur))
              IN  Propagate([uvc EXCEPT ![vih[k]] = nxt], vih, k + 1, nxt)
         ELSE Propagate(uvc, vih, k + 1, cur)

NBoundaries(v) == Cardinality({k \in 2 .. Len(Mesh.vih[v]) : is_boundary_he(Mesh.vih[v][k])})

TruncateVertex(uvc, v) ==
    LET heh == Mesh.vih[v][1]
        a   == AnchorUV(uvc, v)
    IN  Propagate([uvc EXCEPT ![heh] = a], Mesh.vih[v], 2, a)

RECURSIVE TruncateVertices(_, _)
TruncateVertices(uvc, v) ==
    IF v >= Mesh.nv THEN uvc
    ELSE TruncateVertices(TruncateVertex(uvc, v), v + 1)

\* the UVs of the model are held in half units
consistent_truncation(uvc) == TruncateVertices(BoundarySnap(uvc, 1, 2), 0)

TruncationLog ==
    {<<"inconsistent", v>> : v \in {w \in 0 .. Mesh.nv - 1 : ReportsInconsistency(w)}}
    \cup {<<"non-manifold", v>> : v \in {w \in 0 .. Mesh.nv - 1 : NBoundaries(w) > 1}}

(***************************************************************************)
(* Grid vertices and local edge information                                *)
(***************************************************************************)
LECI_Tracing_Error == -4
LECI_Traced_Into_Degeneracy == -3
LECI_Traced_Into_Boundary == -2
LECI_No_Connection == -1
LECI_Connected_Thresh == 0

\* LocalEdgeInfo(fh_from, uv_from, uv_intended_to)
LocalEdgeInfo(fh, from, to) ==
    [ fh_from |-> fh, uv_from |-> from, uv_intended_to |-> to, uv_to |-> to,
      connected_to_idx |-> LECI_No_Connection, orientation_idx |-> -1,
      accumulated_tf |-> IDENTITY, halfedgeIndex |-> -1, face_constructed |-> FALSE ]

isConnected(lei) == lei.connected_to_idx >= LECI_Connected_Thresh
isUnconnected(lei) == lei.connected_to_idx = LECI_No_Connection
isUnconnectedOrSignal(lei) == lei.connected_to_idx < LECI_Connected_Thresh

\* LocalEdgeInfo::completeInformation
completeInformation(lei, c, o, to, tf) ==
    [lei EXCEPT !.connected_to_idx = c, !.orientation_idx = o, !.uv_to = to,
                !.accumulated_tf = tf]

\* GridVertex(type, heh, position_uv, position_3d, is_boundary); the 3D position is
\* kept as the embedding it was taken from
GridVertex(type, heh, puv, emb, bnd) ==
    [ type |-> type, heh |-> heh, position_uv |-> puv, position_3d |-> emb,
      is_boundary |-> bnd, missing_leis |-> 0, local_edges |-> << >> ]

\* the CCW cartesian orientations du, dv, -du, -dv (one unit is 2 half units)
cartesian_orientations_ == << <<2, 0>>, <<0, 2>>, <<-2, 0>>, <<0, -2>> >>

FaceTri(uvc, fh) == <<uvc[3 * fh], uvc[3 * fh + 1], uvc[3 * fh + 2]>>
triangleUvOrientation(fh, uvc) == TriOrientation(FaceTri(uvc, fh))

\* the even (integer) coordinates c with lo <= c <= hi, ascending
LatticeRange(lo, hi) == SortedSeq({c \in lo .. hi : IsLatticeCoord(c)})

construct_local_edge_information_face(gv, uvc) ==
    IF ~is_boundary_he(gv.heh)
    THEN LET fh   == face_handle(gv.heh)
             leis == [k \in 1 .. 4 |->
                         LocalEdgeInfo(fh, gv.position_uv,
                                       VAdd(gv.position_uv, cartesian_orientations_[k]))]
         IN  [gv EXCEPT !.local_edges =
                 IF triangleUvOrientation(fh, uvc) = -1 THEN ReverseSeq(leis) ELSE leis]
    ELSE gv

\* one pass over the four directions: acc is <<the LEIs pushed so far, middleEl>>,
\* ofs the number of LEIs that were there before the pass
RECURSIVE EdgeFaceOne(_, _, _, _, _, _, _, _)
EdgeFaceOne(k, acc, fh, uv_, p0, p1, ori, oppValid) ==
    IF k > 4 THEN acc
    ELSE LET dir      == cartesian_orientations_[k]
             to_uv    == VAdd(uv_, dir)
             path_ori == orient2d(p0, p1, to_uv)
             push     == <<Append(acc[1], LocalEdgeInfo(fh, uv_, to_uv)), acc[2]>>
             skip     == <<acc[1], Len(acc[1])>>
         IN  EdgeFaceOne(k + 1,
                 IF path_ori = ori THEN push
                 ELSE IF path_ori = 0
                      THEN IF Dot(dir, VSub(p1, p0)) > 0 \/ ~oppValid THEN push ELSE skip
                      ELSE skip,
                 fh, uv_, p0, p1, ori, oppValid)

RECURSIVE EdgeFaceTwo(_, _, _, _, _, _, _, _, _)
EdgeFaceTwo(k, acc, fh_opp, uv_, uv_opp, tf, p0, p1, ori_opp) ==
    IF k > 4 THEN acc
    ELSE LET to_uv    == transform_point(tf, VAdd(uv_, cartesian_orientations_[k]))
             tdir     == VSub(to_uv, uv_opp)
             path_ori == orient2d(p0, p1, to_uv)
         IN  EdgeFaceTwo(k + 1,
                 IF path_ori = ori_opp \/ (path_ori = 0 /\ Dot(tdir, VSub(p1, p0)) > 0)
                 THEN <<Append(acc[1], LocalEdgeInfo(fh_opp, uv_opp, to_uv)), acc[2]>>
                 ELSE <<acc[1], Len(acc[1])>>,
                 fh_opp, uv_, uv_opp, tf, p0, p1, ori_opp)

\* rotate the valid run to the front and reverse in a negative face; the group is
\* the part of the sequence from offset ofs on
OrderGroup(leis, ofs, middleEl, ori) ==
    LET head == SubSeq(leis, 1, ofs)
        grp  == SubSeq(leis, ofs + 1, Len(leis))
        rot  == IF middleEl > ofs /\ middleEl < Len(leis)
                THEN RotateSeq(grp, middleEl - ofs) ELSE grp
    IN  head \o (IF ori = -1 THEN ReverseSeq(rot) ELSE rot)

construct_local_edge_information_edge(gv, uvc) ==
    LET heh      == gv.heh
        heh_opp  == opposite_halfedge_handle(gv.heh)
        fh       == face_handle(gv.heh)
        oppValid == ~is_boundary_he(heh_opp)
        fh_opp   == face_handle(heh_opp)
        uv_      == gv.position_uv
        Store(leis) ==
            [gv EXCEPT !.is_boundary = (gv.is_boundary \/ is_boundary_edge(edge_handle(heh))),
                       !.local_edges = leis]
        \* the LEIs into the opposite face, behind the LEIs leis1 into the face
        Second(leis1, ori_opp, two) ==
            Store(OrderGroup(two[1], Len(leis1), two[2], ori_opp))
        Opposite(leis1, ori_opp, tf) ==
            Second(leis1, ori_opp,
                   EdgeFaceTwo(1, <<leis1, 0>>, fh_opp, uv_, transform_point(tf, uv_), tf,
                               uvc[prev_halfedge_handle(heh_opp)], uvc[heh_opp], ori_opp))
        Both(leis1) ==
            IF oppValid
            THEN Opposite(leis1, triangleUvOrientation(fh_opp, uvc), transitionHE(heh))
            ELSE Store(leis1)
        First(ori, one) == Both(OrderGroup(one[1], 0, one[2], ori))
        Oriented(ori) ==
            First(ori, EdgeFaceOne(1, << << >>, 0 >>, fh, uv_,
                                   uvc[prev_halfedge_handle(heh)], uvc[heh], ori, oppValid))
    IN  IF ~is_boundary_he(gv.heh) THEN Oriented(triangleUvOrientation(fh, uvc)) ELSE gv

(***************************************************************************)
(* Exact angles: an angle is k quarter turns plus the argument of w, a      *)
(* vector of the closed first quadrant without the positive v axis.         *)
(***************************************************************************)
RECURSIVE Gcd(_, _)
Gcd(a, b) == IF b = 0 THEN a ELSE Gcd(b, a % b)

AngNorm(k, w) ==
    LET a == w[1]
        b == w[2]
        q == IF a > 0 /\ b >= 0 THEN <<k, <<a, b>>>>
             ELSE IF a <= 0 /\ b > 0 THEN <<k + 1, <<b, -a>>>>
             ELSE IF a < 0 /\ b <= 0 THEN <<k + 2, <<-a, -b>>>>
             ELSE <<k + 3, <<-b, a>>>>
        g == Gcd(q[2][1], q[2][2])
    IN  [k |-> q[1], w |-> <<q[2][1] \div g, q[2][2] \div g>>]

AngZero == [k |-> 0, w |-> <<1, 0>>]
AngAdd(x, y) ==
    AngNorm(x.k + y.k, <<x.w[1] * y.w[1] - x.w[2] * y.w[2], x.w[1] * y.w[2] + x.w[2] * y.w[1]>>)
AngNeg(x) == IF x.w[2] = 0 THEN [k |-> -x.k, w |-> x.w]
             ELSE [k |-> -x.k - 1, w |-> <<x.w[2], x.w[1]>>]
\* 2 * M_PI - x
AngFullTurnMinus(x) == AngAdd([k |-> 4, w |-> <<1, 0>>], AngNeg(x))
AngIsZero(x) == x.k = 0 /\ x.w[2] = 0
AngIsPositive(x) == x.k > 0 \/ (x.k = 0 /\ x.w[2] > 0)
\* std::acos(l.r / (|l| |r|)) for two vectors that are not parallel
AngBetween(l, r) == AngNorm(0, <<Dot(l, r), Abs(l[1] * r[2] - l[2] * r[1])>>)
\* ROUND_QME(x / M_PI_2)
AngQuarterTurns(x) == x.k + (IF x.w[2] >= x.w[1] THEN 1 ELSE 0)

\* the incoming halfedges of v in the order of a VIHIter that is decremented
VihCCW(v) == LET s == Mesh.vih[v]
             IN  IF s = << >> THEN s ELSE <<s[1]>> \o ReverseSeq(SubSeq(s, 2, Len(s)))

RECURSIVE VertexFaceLeis(_, _, _, _, _, _, _, _)
VertexFaceLeis(k, acc, fh, uv0, uv1, uv2, orientation, is_left_opp_boundary) ==
    IF k > 4 THEN acc
    ELSE LET dir  == cartesian_orientations_[k]
             ori1 == orient2dv(VSub(uv1, uv0), dir)
             ori2 == orient2dv(dir, VSub(uv2, uv0))
         IN  VertexFaceLeis(k + 1,
                 IF \/ is_left_opp_boundary /\ ori2 = 0 /\ Dot(dir, VSub(uv2, uv0)) > 0
                    \/ ori1 = 0 /\ Dot(VSub(uv1, uv0), dir) > 0
                    \/ ori1 = orientation /\ ori2 = orientation
                 THEN <<Append(acc[1], LocalEdgeInfo(fh, uv0, VAdd(uv0, dir))), acc[2]>>
                 ELSE <<acc[1], Len(acc[1])>>,
                 fh, uv0, uv1, uv2, orientation, is_left_opp_boundary)

\* st is [leis, initial_neg_angleSum, pos_angleSum, neg_angleSum]
RECURSIVE VertexSectors(_, _, _)
VertexSectors(hs, st, uvc) ==
    LET heh  == Head(hs)
        heh1 == next_halfedge_handle(Head(hs))
        heh2 == next_halfedge_handle(next_halfedge_handle(Head(hs)))
        \* a positive sector closes a run of negative sectors
        Closed(orientation) ==
            IF orientation = 1 /\ AngIsPositive(st.neg)
            THEN [st EXCEPT !.pos = AngAdd(st.pos, AngFullTurnMinus(st.neg)),
                            !.neg = AngZero]
            ELSE st
        Summed(orientation, angle, closed) ==
            IF orientation = 1
            THEN [closed EXCEPT !.pos = AngAdd(closed.pos, angle)]
            ELSE IF orientation = -1
            THEN IF AngIsZero(st.pos)
                 THEN [st EXCEPT !.ineg = AngAdd(st.ineg, angle)]
                 ELSE [st EXCEPT !.neg = AngAdd(st.neg, angle)]
            ELSE st
        Pushed(orientation, summed, per) ==
            VertexSectors(Tail(hs),
                          [summed EXCEPT !.leis = st.leis
                                                  \o OrderGroup(per[1], 0, per[2], orientation)],
                          uvc)
        Sector(uv0, uv1, uv2, orientation) ==
            Pushed(orientation,
                   Summed(orientation, AngBetween(VSub(uv2, uv0), VSub(uv1, uv0)),
                          Closed(orientation)),
                   VertexFaceLeis(1, << << >>, 0 >>, face_handle(heh), uv0, uv1, uv2,
                                  orientation,
                                  is_boundary_he(opposite_halfedge_handle(heh))))
    IN  IF hs = << >> THEN st
        ELSE IF is_boundary_he(heh) THEN VertexSectors(Tail(hs), st, uvc)
        ELSE Sector(uvc[heh], uvc[heh1], uvc[heh2], orient2d(uvc[heh], uvc[heh1], uvc[heh2]))

\* construct_local_edge_information_vertex without the reset of line 922
construct_local_edge_information_vertexUnforced(gv, uvc) ==
    LET vh  == to_vertex_handle(gv.heh)
        bnd == gv.is_boundary \/ is_boundary_vertex(to_vertex_handle(gv.heh))
        pos_angleSum(st) ==
            IF AngIsPositive(st.ineg) \/ AngIsPositive(st.neg)
            THEN AngAdd(st.pos, AngFullTurnMinus(AngAdd(st.neg, st.ineg)))
            ELSE st.pos
        expected_lei_count(st) ==
            IF Mesh.ext # << >> THEN Mesh.ext[vh + 1] ELSE AngQuarterTurns(pos_angleSum(st))
        Store(st) ==
            [gv EXCEPT !.is_boundary = bnd,
                       !.local_edges = st.leis,
                       !.missing_leis = expected_lei_count(st) - Len(st.leis)]
    IN  IF ~is_boundary_he(gv.heh)
        THEN Store(VertexSectors(VihCCW(vh),
                       [leis |-> << >>, ineg |-> AngZero, pos |-> AngZero, neg |-> AngZero],
                       uvc))
        ELSE gv

construct_local_edge_information_vertex(gv, uvc) ==
    LET vh  == to_vertex_handle(gv.heh)
        bnd == gv.is_boundary \/ is_boundary_vertex(to_vertex_handle(gv.heh))
        pos_angleSum(st) ==
            IF AngIsPositive(st.ineg) \/ AngIsPositive(st.neg)
            THEN AngAdd(st.pos, AngFullTurnMinus(AngAdd(st.neg, st.ineg)))
            ELSE st.pos
        expected_lei_count(st) ==
            IF Mesh.ext # << >> THEN Mesh.ext[vh + 1] ELSE AngQuarterTurns(pos_angleSum(st))
        Store(st) ==
            [gv EXCEPT !.is_boundary = bnd,
                       !.local_edges = st.leis,
                       !.missing_leis = IF bnd THEN 0
                                        ELSE expected_lei_count(st) - Len(st.leis)]
    IN  IF ~is_boundary_he(gv.heh)
        THEN Store(VertexSectors(VihCCW(vh),
                       [leis |-> << >>, ineg |-> AngZero, pos |-> AngZero, neg |-> AngZero],
                       uvc))
        ELSE gv

(***************************************************************************)
(* generate_vertices                                                       *)
(***************************************************************************)
\* the embedding handed to generate_vertices; a 3D position is kept as the
\* embedding and the UV point it is the image of
EmbeddingOf(dec) == IF dec THEN "HeVectorEmbedding" ELSE "OriginalEmbedding"

\* ROUND_QME(n / d) for a rational n / d
RoundRat(n, d) ==
    LET nn == IF d < 0 THEN -n ELSE n
        dd == Abs(d)
    IN  IF nn >= 0 THEN (2 * nn + dd) \div (2 * dd) ELSE -((2 * (-nn) + dd) \div (2 * dd))

\* the same, but only for a triangle of positive orientation
FaceLatticePointsOfPositive(fh, uvc) ==
    LET tri == FaceTri(uvc, fh)
        xs  == LatticeRange(MinOf({tri[k][1] : k \in 1 .. 3}), MaxOf({tri[k][1] : k \in 1 .. 3}))
        ys  == LatticeRange(MinOf({tri[k][2] : k \in 1 .. 3}), MaxOf({tri[k][2] : k \in 1 .. 3}))
        F[i \in 0 .. Len(xs) * Len(ys)] ==
            IF i = 0 THEN << >>
            ELSE LET pt == <<xs[((i - 1) \div Len(ys)) + 1], ys[((i - 1) % Len(ys)) + 1]>>
                 IN  IF has_on_bounded_side(tri, pt) THEN Append(F[i - 1], pt) ELSE F[i - 1]
    IN  IF TriOrientation(tri) > 0 THEN F[Len(xs) * Len(ys)] ELSE << >>

\* the lattice points strictly inside face fh, x ascending, then y ascending
FaceLatticePoints(fh, uvc) ==
    LET tri == FaceTri(uvc, fh)
        xs  == LatticeRange(MinOf({tri[k][1] : k \in 1 .. 3}), MaxOf({tri[k][1] : k \in 1 .. 3}))
        ys  == LatticeRange(MinOf({tri[k][2] : k \in 1 .. 3}), MaxOf({tri[k][2] : k \in 1 .. 3}))
        F[i \in 0 .. Len(xs) * Len(ys)] ==
            IF i = 0 THEN << >>
            ELSE LET pt == <<xs[((i - 1) \div Len(ys)) + 1], ys[((i - 1) % Len(ys)) + 1]>>
                 IN  IF has_on_bounded_side(tri, pt) THEN Append(F[i - 1], pt) ELSE F[i - 1]
    IN  IF TriOrientation(tri) # 0 THEN F[Len(xs) * Len(ys)] ELSE << >>

\* the lattice points of the closed segment p0-p1 along axis ax, its ends included
EdgeLatticePointsWithEnds(p0, p1, ax) ==
    LET ot == 3 - ax
        cs == LatticeRange(Min2(p0[ax], p1[ax]), Max2(p0[ax], p1[ax]))
        F[i \in 0 .. Len(cs)] ==
            IF i = 0 THEN << >>
            ELSE LET c  == cs[i]
                     d  == p1[ax] - p0[ax]
                     o  == 2 * RoundRat(p0[ot] * d + (c - p0[ax]) * (p1[ot] - p0[ot]), 2 * d)
                     pt == IF ax = 1 THEN <<c, o>> ELSE <<o, c>>
                 IN  IF SegHasOn(p0, p1, pt) THEN Append(F[i - 1], pt) ELSE F[i - 1]
    IN  F[Len(cs)]

\* the lattice points in the interior of the segment p0-p1, found along the axis
\* ax in which the segment is longer (the other axis is 3 - ax)
EdgeLatticePointsAlong(p0, p1, ax) ==
    LET ot == 3 - ax
        lo == Min2(p0[ax], p1[ax])
        hi == Max2(p0[ax], p1[ax])
        cs == LatticeRange(lo + (IF IsLatticeCoord(lo) THEN 1 ELSE 0),
                           hi - (IF IsLatticeCoord(hi) THEN 1 ELSE 0))
        F[i \in 0 .. Len(cs)] ==
            IF i = 0 THEN << >>
            ELSE LET c  == cs[i]
                     d  == p1[ax] - p0[ax]
                     o  == 2 * RoundRat(p0[ot] * d + (c - p0[ax]) * (p1[ot] - p0[ot]), 2 * d)
                     pt == IF ax = 1 THEN <<c, o>> ELSE <<o, c>>
                 IN  IF /\ Min2(p0[ot], p1[ot]) <= o /\ o <= Max2(p0[ot], p1[ot])
                        /\ SegHasOn(p0, p1, pt)
                     THEN Append(F[i - 1], pt) ELSE F[i - 1]
    IN  F[Len(cs)]

\* the same, but nothing for an edge whose triangle has orientation zero
EdgeLatticePointsOfProperTriangle(eh, uvc) ==
    LET p0 == uvc[eh]
        p1 == uvc[prev_halfedge_handle(eh)]
    IN  IF p0 = p1 \/ TriOrientation(FaceTri(uvc, face_handle(eh))) = 0 THEN << >>
        ELSE EdgeLatticePointsAlong(p0, p1,
                                    IF Abs(p1[1] - p0[1]) >= Abs(p1[2] - p0[2]) THEN 1 ELSE 2)

EdgeLatticePoints(eh, uvc) ==
    LET p0 == uvc[eh]
        p1 == uvc[prev_halfedge_handle(eh)]
    IN  IF p0 = p1 THEN << >>
        ELSE EdgeLatticePointsAlong(p0, p1,
                                    IF Abs(p1[1] - p0[1]) >= Abs(p1[2] - p0[2]) THEN 1 ELSE 2)

\* the gvertices of one face, one edge and one vertex
FaceGVs(fh, uvc, emb) ==
    LET Made(pts) ==
            [i \in 1 .. Len(pts) |->
                construct_local_edge_information_face(
                    GridVertex("OnFace", 3 * fh, pts[i], <<emb, "face", fh, pts[i]>>, FALSE),
                    uvc)]
    IN  Made(FaceLatticePoints(fh, uvc))
EdgeGVs(eh, uvc, emb) ==
    LET Made(pts) ==
            [i \in 1 .. Len(pts) |->
                construct_local_edge_information_edge(
                    GridVertex("OnEdge", eh, pts[i], <<emb, "edge", eh, pts[i]>>, FALSE),
                    uvc)]
    IN  Made(EdgeLatticePoints(eh, uvc))
\* an OnVertex gvertex for the vertex whether or not its UV is integer
VertexGVsOfEveryVertex(vh, uvc, emb) ==
    LET heh == Mesh.vih[vh][1]
        pt  == uvc[heh]
    IN  << construct_local_edge_information_vertex(
               GridVertex("OnVertex", heh, pt, <<emb, "vertex", vh, pt>>, FALSE), uvc) >>
VertexGVs(vh, uvc, emb) ==
    LET heh == Mesh.vih[vh][1]
        pt  == uvc[heh]
    IN  IF IsLatticeCoord(pt[1]) /\ IsLatticeCoord(pt[2])
        THEN << construct_local_edge_information_vertex(
                    GridVertex("OnVertex", heh, pt, <<emb, "vertex", vh, pt>>, FALSE), uvc) >>
        ELSE << >>

\* the indices n, n+1, ... of k gvertices appended behind n others
NewIndices(n, k) == [i \in 1 .. k |-> n + i - 1]

\* st is [gv, fgv, egv, vgv]: gvertices_ and the three reference tables
RECURSIVE GenFaceLoop(_, _, _, _)
GenFaceLoop(fh, st, uvc, emb) ==
    LET Push(new) ==
            GenFaceLoop(fh + 1,
                [st EXCEPT !.gv = st.gv \o new,
                           !.fgv = [st.fgv EXCEPT ![fh] = NewIndices(Len(st.gv), Len(new))]],
                uvc, emb)
    IN  IF fh >= Mesh.nf THEN st ELSE Push(FaceGVs(fh, uvc, emb))
RECURSIVE GenEdgeLoop(_, _, _, _)
GenEdgeLoop(i, st, uvc, emb) ==
    LET Push(eh, new) ==
            GenEdgeLoop(i + 1,
                [st EXCEPT !.gv = st.gv \o new,
                           !.egv = [st.egv EXCEPT ![eh] = NewIndices(Len(st.gv), Len(new))]],
                uvc, emb)
    IN  IF i > Len(Mesh.edges) THEN st
        ELSE Push(Mesh.edges[i], EdgeGVs(Mesh.edges[i], uvc, emb))
RECURSIVE GenVertexLoop(_, _, _, _)
GenVertexLoop(vh, st, uvc, emb) ==
    LET Push(new) ==
            GenVertexLoop(vh + 1,
                [st EXCEPT !.gv = st.gv \o new,
                           !.vgv = [st.vgv EXCEPT ![vh] = NewIndices(Len(st.gv), Len(new))]],
                uvc, emb)
    IN  IF vh >= Mesh.nv THEN st ELSE Push(VertexGVs(vh, uvc, emb))

EdgeSet == {Mesh.edges[i] : i \in 1 .. Len(Mesh.edges)}
generate_vertices(uvc, emb) ==
    GenVertexLoop(0,
        GenEdgeLoop(1,
            GenFaceLoop(0, [gv  |-> << >>,
                            fgv |-> [f \in 0 .. Mesh.nf - 1 |-> << >>],
                            egv |-> [e \in EdgeSet |-> << >>],
                            vgv |-> [v \in 0 .. Mesh.nv - 1 |-> << >>]], uvc, emb),
            uvc, emb),
        uvc, emb)
\* edge_valid_: the edge's UV segment (in the face of its halfedge) is not degenerate
EdgeValid(uvc) == [e \in EdgeSet |-> uvc[e] # uvc[prev_halfedge_handle(e)]]

(***************************************************************************)
(* Tracing: find_path and the local connection search                      *)
(***************************************************************************)
GV(i) == gvertices_[i + 1]
\* GridVertex::local_edge(idx): the index wraps around
local_edge(gv, idx) == gv.local_edges[(idx % Len(gv.local_edges)) + 1]
LEI(i, j) == GV(i).local_edges[j + 1]
n_edges(gv) == Len(gv.local_edges)

FindPathResult(c, o, from, to, tf) ==
    [connected_to_idx |-> c, orientation_idx |-> o, uv_from |-> from, uv_to |-> to,
     accumulated_tf |-> tf]
Signal(sig) == FindPathResult(sig, -1, <<0, 0>>, <<0, 0>>, IDENTITY)
\* an error result that carries no error signal
ErrorAsNoConnection == Signal(LECI_No_Connection)
Error == Signal(LECI_Tracing_Error)
\* FindPathResult::applyToLocalEdgeInfo
applyToLocalEdgeInfo(res, lei) ==
    [lei EXCEPT !.connected_to_idx = res.connected_to_idx,
                !.orientation_idx = res.orientation_idx,
                !.uv_to = res.uv_to,
                !.accumulated_tf = res.accumulated_tf]
\* reverseApply: a point traced through tf is taken back to the chart it started in
reverseApply(pt, tf) == transform_point(TFInverse(tf), pt)
Found(vidx, j, from, to, tf) ==
    FindPathResult(vidx, j, reverseApply(from, tf), reverseApply(to, tf), tf)

\* the index of an axis direction in cartesian_orientations_, and the index in
\* the reversed list that a negative face holds
ori_to_idx(dir) ==
    IF dir = <<2, 0>> THEN 0 ELSE IF dir = <<0, 2>> THEN 1
    ELSE IF dir = <<-2, 0>> THEN 2 ELSE IF dir = <<0, -2>> THEN 3 ELSE -1
ori_to_idx_inverse(dir) == 3 - ori_to_idx(dir)

\* the first element of the sequence of candidates, or the error result
FirstOr(cands, other) == IF cands = << >> THEN other ELSE cands[1]
RECURSIVE Flatten(_)
Flatten(ss) == IF ss = << >> THEN << >> ELSE Head(ss) \o Flatten(Tail(ss))
SelectIdx(n, Test(_)) ==
    LET F[i \in 0 .. n] == IF i = 0 THEN << >>
                           ELSE IF Test(i) THEN Append(F[i - 1], i) ELSE F[i - 1]
    IN  F[n]

\* TF of the fan around an OnVertex gvertex from from_fh up to to_fh (clockwise)
RECURSIVE FanTransition(_, _, _, _, _)
FanTransition(vih, k, to_fh, result, first) ==
    IF ~first /\ face_handle(vih[((k - 1) % Len(vih)) + 1]) = to_fh THEN result
    ELSE FanTransition(vih, k + 1, to_fh,
             TFMul(transitionHE(next_halfedge_handle(vih[((k - 1) % Len(vih)) + 1])), result),
             FALSE)

\* IntraGvThrows with the face of the opposite halfedge not accepted as from_fh
IntraGvThrowsOffAnchorFace(from_fh, to_fh, gv, returnIdentityIfSameFh) ==
    /\ ~(returnIdentityIfSameFh /\ from_fh = to_fh)
    /\ gv.type = "OnEdge"
    /\ face_handle(gv.heh) # from_fh

\* std::logic_error thrown by intra_gv_transition
IntraGvThrows(from_fh, to_fh, gv, returnIdentityIfSameFh) ==
    /\ ~(returnIdentityIfSameFh /\ from_fh = to_fh)
    /\ gv.type = "OnEdge"
    /\ face_handle(gv.heh) # from_fh
    /\ face_handle(opposite_halfedge_handle(gv.heh)) # from_fh

intra_gv_transition(from_fh, to_fh, gv, returnIdentityIfSameFh) ==
    IF returnIdentityIfSameFh /\ from_fh = to_fh THEN IDENTITY
    ELSE IF gv.type = "OnFace" THEN IDENTITY
    ELSE IF gv.type = "OnEdge"
    THEN IF face_handle(gv.heh) = from_fh
         THEN TFMul(IF from_fh = to_fh
                    THEN transitionHE(opposite_halfedge_handle(gv.heh)) ELSE IDENTITY,
                    transitionHE(gv.heh))
         ELSE TFMul(IF from_fh = to_fh THEN transitionHE(gv.heh) ELSE IDENTITY,
                    transitionHE(opposite_halfedge_handle(gv.heh)))
    ELSE LET vih   == Mesh.vih[to_vertex_handle(gv.heh)]
             start == CHOOSE k \in 1 .. Len(vih) :
                          /\ face_handle(vih[k]) = from_fh
                          /\ \A l \in 1 .. k - 1 : face_handle(vih[l]) # from_fh
         IN  FanTransition(vih, start, to_fh, IDENTITY, TRUE)

find_local_connection_at_edge(uv_from, uv_original_from, uv_to, heh, acc) ==
    LET eh     == edge_handle(heh)
        fh     == face_handle(heh)
        fh_opp == face_handle(opposite_halfedge_handle(heh))
        cross  == transitionHE(heh)
        uv_from_opp == transform_point(cross, uv_from)
        uv_to_opp   == transform_point(cross, uv_to)
        Hit(vidx, j) ==
            LET l == LEI(vidx, j)
            IN  \/ l.fh_from = fh /\ l.uv_from = uv_to /\ l.uv_intended_to = uv_from
                \/ l.fh_from = fh_opp /\ l.uv_from = uv_to_opp /\ l.uv_intended_to = uv_from_opp
        Res(vidx, j) ==
            IF face_handle(GV(vidx).heh) = fh
            THEN Found(vidx, j, uv_original_from, uv_to, acc)
            ELSE Found(vidx, j, uv_original_from, uv_to_opp, TFMul(cross, acc))
        gvs    == edge_gvertices_[eh]
        cands  == Flatten([i \in 1 .. Len(gvs) |->
                     LET js == SelectIdx(n_edges(GV(gvs[i])), LAMBDA j : Hit(gvs[i], j - 1))
                     IN  [k \in 1 .. Len(js) |-> Res(gvs[i], js[k] - 1)]])
    IN  FirstOr(cands, Error)

\* a candidate chart at the vertex: the face fh and the data carried into it by tf
AtVertexCand(fh, tf, uv_from, uv_original_from, uv_to) ==
    [fh |-> fh, tf |-> tf,
     uv_from |-> transform_point(tf, uv_from),
     uv_original_from |-> transform_point(tf, uv_original_from),
     uv_to |-> transform_point(tf, uv_to)]
\* the LEI l is the peer of the path as seen in the candidate chart c
AtVertexHit(c, l) ==
    c.fh = l.fh_from /\ c.uv_from = l.uv_intended_to /\ c.uv_to = l.uv_from
AtVertexResult(vidx, j, c, intra, acc) ==
    Found(vidx, j, transform_point(intra, c.uv_original_from),
          transform_point(intra, c.uv_to), TFMul(intra, TFMul(c.tf, acc)))
AtVertexRes(vidx, j, c, acc) ==
    AtVertexResult(vidx, j, c,
                   intra_gv_transition(c.fh, face_handle(GV(vidx).heh), GV(vidx), TRUE), acc)
\* the loops over the gvertices gvs of the vertex, their LEIs and the candidates cs
AtVertexSearch(cs, gvs, acc) ==
    FirstOr(Flatten([i \in 1 .. Len(gvs) |->
                Flatten([j \in 1 .. n_edges(GV(gvs[i])) |->
                    LET ks == SelectIdx(Len(cs), LAMBDA k : AtVertexHit(cs[k], LEI(gvs[i], j - 1)))
                    IN  [x \in 1 .. Len(ks) |-> AtVertexRes(gvs[i], j - 1, cs[ks[x]], acc)]])]),
            Error)

\* heh points to the vertex where uv_to lies, tri[1] is the UV of that vertex;
\* the candidates are the face of heh and the faces beyond the two edges at the
\* vertex on which the path runs
find_local_connection_at_vertex(uv_from, uv_original_from, uv_to, heh, tri, acc) ==
    LET opp_heh  == opposite_halfedge_handle(heh)
        nheh     == next_halfedge_handle(heh)
        opp_nheh == opposite_halfedge_handle(nheh)
    IN  AtVertexSearch(
            << AtVertexCand(face_handle(heh), IDENTITY, uv_from, uv_original_from, uv_to) >>
            \o (IF is_collinear(uv_from, uv_to, tri[3]) /\ ~is_boundary_he(opp_heh)
                THEN << AtVertexCand(face_handle(opp_heh), transitionHE(heh),
                                     uv_from, uv_original_from, uv_to) >> ELSE << >>)
            \o (IF is_collinear(uv_from, uv_to, tri[2]) /\ ~is_boundary_he(opp_nheh)
                THEN << AtVertexCand(face_handle(opp_nheh), transitionHE(nheh),
                                     uv_from, uv_original_from, uv_to) >> ELSE << >>),
            vertex_gvertices_[to_vertex_handle(heh)], acc)

\* the corner (1, 2 or 3) of tri that uv_to lies on, 0 if on none; the side
\* (1: heh0, 2: heh1, 3: heh2) that uv_to lies on, 0 if on none
CornerOf(tri, uv_to) ==
    IF uv_to = tri[1] THEN 1 ELSE IF uv_to = tri[2] THEN 2 ELSE IF uv_to = tri[3] THEN 3 ELSE 0
SideOf(tri, uv_to) ==
    IF SegHasOn(tri[3], tri[1], uv_to) THEN 1
    ELSE IF SegHasOn(tri[1], tri[2], uv_to) THEN 2
    ELSE IF SegHasOn(tri[2], tri[3], uv_to) THEN 3 ELSE 0

\* uv_to inside the face: the first gvertex of the face (gvs, hits the indices
\* that match) whose LEI ori_idx points back along the path
InFaceFound(hits, gvs, ori_idx, uv_original_from, uv_to, acc) ==
    IF hits = << >> THEN Error
    ELSE Found(gvs[hits[1]], ori_idx, uv_original_from, uv_to, acc)
InFaceConnection(uv_from, uv_original_from, uv_to, ori_idx, gvs, acc) ==
    InFaceFound(SelectIdx(Len(gvs), LAMBDA i :
                    /\ LEI(gvs[i], ori_idx).uv_intended_to = uv_from
                    /\ LEI(gvs[i], ori_idx).uv_from = uv_to),
                gvs, ori_idx, uv_original_from, uv_to, acc)
\* uv_to on the corner k of tri
AtCornerConnection(uv_from, uv_original_from, uv_to, tri, hehs, acc, k) ==
    find_local_connection_at_vertex(uv_from, uv_original_from, uv_to, hehs[k],
                                    <<tri[k], tri[(k % 3) + 1], tri[((k + 1) % 3) + 1]>>, acc)
\* uv_to on a side of tri, k the side found by SideOf (0: on none)
OnSideConnection(uv_from, uv_original_from, uv_to, hehs, acc, k) ==
    IF k = 0 THEN Error
    ELSE find_local_connection_at_edge(uv_from, uv_original_from, uv_to, hehs[k], acc)

find_local_connection(uv_from, uv_original_from, uv_to, tri, heh0, heh1, heh2, bs, acc, uvc) ==
    IF TriIsDegenerate(tri) THEN Signal(LECI_Traced_Into_Degeneracy)
    ELSE IF bs = "in"
    THEN InFaceConnection(uv_from, uv_original_from, uv_to,
                          IF triangleUvOrientation(face_handle(heh0), uvc) = -1
                          THEN ori_to_idx_inverse(VSub(uv_from, uv_to))
                          ELSE ori_to_idx(VSub(uv_from, uv_to)),
                          face_gvertices_[face_handle(heh0)], acc)
    ELSE IF CornerOf(tri, uv_to) # 0
    THEN AtCornerConnection(uv_from, uv_original_from, uv_to, tri, <<heh0, heh1, heh2>>,
                            acc, CornerOf(tri, uv_to))
    ELSE OnSideConnection(uv_from, uv_original_from, uv_to, <<heh0, heh1, heh2>>,
                          acc, SideOf(tri, uv_to))

\* the safeguard of the walking loop of find_path
MaxWalkIterations == 100000

\* the halfedge through which the path leaves the triangle entered through heh0
\* (-1: none found), from the intersection tests is1, is2 and the tests vis0,
\* vis1, vis2 of the corners on the path
LeaveThrough(heh1, heh2, is1, is2, vis0, vis1, vis2, side) ==
    IF is1 /\ ~is2 THEN heh1
    ELSE IF ~is1 /\ is2 THEN heh2
    ELSE IF is1 /\ is2
    THEN IF ~vis0 /\ ~vis1 /\ vis2 THEN heh1
         ELSE IF vis0 /\ vis2
         THEN IF side THEN heh1 ELSE heh2
         ELSE heh2
    ELSE -1
WalkLeave(heh0, uv_from, uv_to, tri, tri_ori) ==
    LeaveThrough(next_halfedge_handle(heh0), next_halfedge_handle(next_halfedge_handle(heh0)),
                 SegIntersects(uv_from, uv_to, tri[1], tri[2]),
                 SegIntersects(uv_from, uv_to, tri[3], tri[2]),
                 SegHasOn(uv_from, uv_to, tri[1]),
                 SegHasOn(uv_from, uv_to, tri[2]),
                 SegHasOn(uv_from, uv_to, tri[3]),
                 orient2d(uv_from, uv_to, tri[2]) = tri_ori)

\* uv_from and uv_to are not swapped at any change of orientation
PathNeverSwapped(tri_ori, inverted) == FALSE

\* currentlyInverted != inverted: uv_from and uv_to are swapped in this pass
PathSwapped(tri_ori, inverted) == (tri_ori = -1) # inverted

\* the main walking loop; w is [cur_heh, uv_from, uv_original_from, uv_to,
\* accumulated_tf, inverted]
RECURSIVE Walk(_, _, _)
\* the path leaves the triangle through heh_upd, with the transition tf
WalkThrough(w, walk_iterations, uvc, heh_upd, tf, tri_ori, uv_from, uv_to) ==
    IF heh_upd = -1 THEN Error
    ELSE IF ~edge_valid_[edge_handle(heh_upd)]
    THEN Signal(LECI_Traced_Into_Degeneracy)
    ELSE Walk([cur_heh |-> opposite_halfedge_handle(heh_upd),
               uv_from |-> transform_point(tf, uv_from),
               uv_original_from |-> transform_point(tf, w.uv_original_from),
               uv_to |-> transform_point(tf, uv_to),
               accumulated_tf |-> TFMul(tf, w.accumulated_tf),
               inverted |-> (tri_ori = -1)],
              walk_iterations + 1, uvc)
WalkCross(w, walk_iterations, uvc, heh_upd, tri_ori, uv_from, uv_to) ==
    IF heh_upd = -1 THEN Error
    ELSE WalkThrough(w, walk_iterations, uvc, heh_upd, transitionHE(heh_upd),
                     tri_ori, uv_from, uv_to)
\* uv_to is in or on the triangle (bs), or the path leaves the triangle
WalkLocate(w, walk_iterations, uvc, tri, tri_ori, uv_from, uv_to, bs) ==
    IF bs \in {"in", "on"}
    THEN find_local_connection(uv_from, w.uv_original_from, uv_to, tri, w.cur_heh,
                               next_halfedge_handle(w.cur_heh),
                               next_halfedge_handle(next_halfedge_handle(w.cur_heh)),
                               bs, w.accumulated_tf, uvc)
    ELSE WalkCross(w, walk_iterations, uvc,
                   WalkLeave(w.cur_heh, uv_from, uv_to, tri, tri_ori),
                   tri_ori, uv_from, uv_to)
\* one pass of the loop in the triangle tri of cur_heh
WalkPass(w, walk_iterations, uvc, tri, tri_ori, uv_from, uv_to) ==
    IF tri_ori = 0 /\ ~(tri[1] # tri[2] /\ tri[2] # tri[3] /\ tri[3] # tri[1])
    THEN Signal(LECI_Traced_Into_Degeneracy)
    ELSE WalkLocate(w, walk_iterations, uvc, tri, tri_ori, uv_from, uv_to,
                    TriBoundedness(tri, uv_to))
\* the path is seen reversed when the orientation of the triangle changes
WalkOriented(w, walk_iterations, uvc, tri, tri_ori) ==
    WalkPass(w, walk_iterations, uvc, tri, tri_ori,
             IF PathSwapped(tri_ori, w.inverted) THEN w.uv_to ELSE w.uv_from,
             IF PathSwapped(tri_ori, w.inverted) THEN w.uv_from ELSE w.uv_to)
WalkTriangle(w, walk_iterations, uvc, tri) ==
    WalkOriented(w, walk_iterations, uvc, tri, TriOrientation(tri))
Walk(w, walk_iterations, uvc) ==
    IF walk_iterations >= MaxWalkIterations THEN Error
    ELSE IF is_boundary_he(w.cur_heh) THEN Signal(LECI_Traced_Into_Boundary)
    ELSE WalkTriangle(w, walk_iterations, uvc,
                      <<uvc[w.cur_heh], uvc[next_halfedge_handle(w.cur_heh)],
                        uvc[next_halfedge_handle(next_halfedge_handle(w.cur_heh))]>>)

\* the halfedge of the first crossing (-1: none, an error)
FirstHalfedge(gv, lei, heh0, heh1, heh2, tri, uvc) ==
    LET cur_fh == lei.fh_from
    IN  IF gv.type = "OnFace"
        THEN IF SegIntersects(lei.uv_from, lei.uv_intended_to, tri[3], tri[1]) THEN heh0
             ELSE IF SegIntersects(lei.uv_from, lei.uv_intended_to, tri[1], tri[2]) THEN heh1
             ELSE IF SegIntersects(lei.uv_from, lei.uv_intended_to, tri[2], tri[3]) THEN heh2
             ELSE -1
        ELSE IF gv.type = "OnEdge"
        THEN LET cur_heh == IF is_boundary_he(gv.heh) \/ face_handle(gv.heh) # cur_fh
                            THEN opposite_halfedge_handle(gv.heh) ELSE gv.heh
                 next_heh == next_halfedge_handle(cur_heh)
             IN  IF SegIntersects(lei.uv_from, lei.uv_intended_to, uvc[cur_heh], uvc[next_heh])
                 THEN next_heh ELSE prev_halfedge_handle(cur_heh)
        ELSE LET vh == to_vertex_handle(gv.heh)
             IN  IF to_vertex_handle(heh0) = vh THEN heh2
                 ELSE IF to_vertex_handle(heh1) = vh THEN heh0
                 ELSE IF to_vertex_handle(heh2) = vh THEN heh1
                 ELSE -1

\* the first crossing with uv_original_from left in the chart of the start
FirstCrossingKeepingOrigin(lei, cur_heh, tf, tri_ori) ==
    [cur_heh |-> opposite_halfedge_handle(cur_heh),
     uv_from |-> transform_point(tf, lei.uv_from),
     uv_original_from |-> lei.uv_from,
     uv_to |-> transform_point(tf, lei.uv_intended_to),
     accumulated_tf |-> TFMul(tf, IDENTITY),
     inverted |-> (tri_ori = -1)]

\* the variables of the loop after the first crossing, through cur_heh with the
\* transition tf
FirstCrossing(lei, cur_heh, tf, tri_ori) ==
    [cur_heh |-> opposite_halfedge_handle(cur_heh),
     uv_from |-> transform_point(tf, lei.uv_from),
     uv_original_from |-> transform_point(tf, lei.uv_from),
     uv_to |-> transform_point(tf, lei.uv_intended_to),
     accumulated_tf |-> TFMul(tf, IDENTITY),
     inverted |-> (tri_ori = -1)]

\* the path leaves the first triangle through cur_heh, with the transition tf
StartThrough(lei, uvc, cur_heh, tf, tri_ori) ==
    IF ~edge_valid_[edge_handle(cur_heh)]
    THEN Signal(LECI_Traced_Into_Degeneracy)
    ELSE Walk(FirstCrossing(lei, cur_heh, tf, tri_ori), 0, uvc)
StartCross(lei, uvc, cur_heh, tri_ori) ==
    IF cur_heh = -1 THEN Error
    ELSE StartThrough(lei, uvc, cur_heh, transitionHE(cur_heh), tri_ori)
\* uv_intended_to is in or on the first triangle (bs), or the path leaves it
StartLocate(gv, lei, uvc, heh0, heh1, heh2, tri, bs) ==
    IF bs \in {"in", "on"}
    THEN find_local_connection(lei.uv_from, lei.uv_from, lei.uv_intended_to,
                               tri, heh0, heh1, heh2, bs, IDENTITY, uvc)
    ELSE StartCross(lei, uvc, FirstHalfedge(gv, lei, heh0, heh1, heh2, tri, uvc),
                    TriOrientation(tri))
StartTriangle(gv, lei, uvc, heh0, heh1, heh2, tri) ==
    StartLocate(gv, lei, uvc, heh0, heh1, heh2, tri, TriBoundedness(tri, lei.uv_intended_to))
StartFace(gv, lei, uvc, heh0, heh1, heh2) ==
    StartTriangle(gv, lei, uvc, heh0, heh1, heh2, <<uvc[heh0], uvc[heh1], uvc[heh2]>>)

find_path(gv, lei, uvc) ==
    StartFace(gv, lei, uvc, 3 * lei.fh_from, next_halfedge_handle(3 * lei.fh_from),
              next_halfedge_handle(next_halfedge_handle(3 * lei.fh_from)))

(***************************************************************************)
(* generate_connections: one pass of the loop body for the LEI (i, j)      *)
(***************************************************************************)
\* SetLEI that also moves the gvertex to the end of the stored LEI
SetLEIAndPosition(gvs, i, j, lei) ==
    [gvs EXCEPT ![i + 1].local_edges[j + 1] = lei, ![i + 1].position_uv = lei.uv_to]
SetLEI(gvs, i, j, lei) == [gvs EXCEPT ![i + 1].local_edges[j + 1] = lei]

\* the LEIs (i, j) in the order of the two nested loops
LeiOrder(gvs) ==
    Flatten([i \in 1 .. Len(gvs) |-> [j \in 1 .. Len(gvs[i].local_edges) |-> <<i - 1, j - 1>>]])

\* not_yet_connected that takes a slot holding a sentinel as connected
not_yet_connected_strict(peer) == isUnconnected(peer)
\* "not yet connected?": the test of the peer slot that a trace has found
not_yet_connected(peer) == isUnconnectedOrSignal(peer)

\* reverse_tf without the transitions inside the two gvertices
reverse_tf_without_intra(gvs, i, j, c, o) == gvs[i + 1].local_edges[j + 1].accumulated_tf

\* reverse_tf as first computed: from the chart of gvertex i's anchor through the
\* traced LEI (i, j) into the chart of the face of the peer LEI (c, o)
reverse_tf(gvs, i, j, c, o) ==
    TFMul(TFInverse(intra_gv_transition(gvs[c + 1].local_edges[o + 1].fh_from,
                                        face_handle(gvs[c + 1].heh), gvs[c + 1], TRUE)),
          TFMul(gvs[i + 1].local_edges[j + 1].accumulated_tf,
                TFInverse(intra_gv_transition(gvs[i + 1].local_edges[j + 1].fh_from,
                                              face_handle(gvs[i + 1].heh),
                                              gvs[i + 1], TRUE))))

\* reset_connection left out: the traced LEI keeps the peer it found
reset_connection_omitted(traced) == traced
\* reset_connection that stores the boundary sentinel instead of NoConnection
reset_connection_to_boundary(traced) ==
    [traced EXCEPT !.connected_to_idx = LECI_Traced_Into_Boundary]

\* the trace of (i, j) found a peer slot that is already connected: the traced
\* LEI is reset to unconnected
reset_connection(traced) == [traced EXCEPT !.connected_to_idx = LECI_No_Connection]

\* gvertices_ after the trace of the LEI (i, j) has found target
ConnectLEI(i, j, target) ==
    LET c == target.connected_to_idx
        o == target.orientation_idx
        Join(g2, traced, peer, rtf) ==
            IF not_yet_connected(peer)
            THEN SetLEI(g2, c, o,
                        completeInformation(peer, i, j,
                                            transform_point(rtf, g2[i + 1].position_uv),
                                            TFInverse(rtf)))
            ELSE SetLEI(g2, i, j, reset_connection(traced))
        Store(g2, traced) ==
            IF c >= LECI_Connected_Thresh
            THEN Join(g2, traced, g2[c + 1].local_edges[o + 1], reverse_tf(g2, i, j, c, o))
            ELSE g2
        Mark(g1, traced) ==
            Store(IF c = LECI_Traced_Into_Boundary
                  THEN [g1 EXCEPT ![i + 1].is_boundary = TRUE] ELSE g1, traced)
        Apply(traced) == Mark(SetLEI(gvertices_, i, j, traced), traced)
    IN  Apply(applyToLocalEdgeInfo(target, LEI(i, j)))

\* intra_gv_transition throws while the reverse transition of (i, j) is computed
ConnectThrows(i, j, target) ==
    LET c      == target.connected_to_idx
        peerGv == GV(c)
        peer   == LEI(c, target.orientation_idx)
    IN  /\ c >= LECI_Connected_Thresh
        /\ ~(c = i /\ target.orientation_idx = j)
        /\ not_yet_connected(peer)
        /\ \/ IntraGvThrows(peer.fh_from, face_handle(peerGv.heh), peerGv, TRUE)
           \/ IntraGvThrows(LEI(i, j).fh_from, face_handle(GV(i).heh), GV(i), TRUE)

\* the peer slot found by the trace of (i, j) was already connected
PeerSlotTaken(i, j, target) ==
    /\ target.connected_to_idx >= LECI_Connected_Thresh
    /\ ~not_yet_connected(
           IF target.connected_to_idx = i /\ target.orientation_idx = j
           THEN applyToLocalEdgeInfo(target, LEI(i, j))
           ELSE LEI(target.connected_to_idx, target.orientation_idx))

(***************************************************************************)
(* try_connect_incomplete_gvertices                                        *)
(***************************************************************************)
InsertAt(seq, pos, x) == SubSeq(seq, 1, pos) \o <<x>> \o SubSeq(seq, pos + 1, Len(seq))

\* notConnected without its loop
notConnectedUnchecked(gvs, gv1, gv2) == TRUE

\* increment_opposite_connected_to_idx over the LEIs first .. last - 1 of gvertex g
RECURSIVE increment_opposite_connected_to_idx(_, _, _)
increment_opposite_connected_to_idx(gvs, g, first) ==
    IF first >= Len(gvs[g + 1].local_edges) THEN gvs
    ELSE LET l   == gvs[g + 1].local_edges[first + 1]
             c   == l.connected_to_idx
             pos == (l.orientation_idx % Len(gvs[c + 1].local_edges)) + 1
         IN  increment_opposite_connected_to_idx(
                 IF c >= LECI_Connected_Thresh
                 THEN [gvs EXCEPT ![c + 1].local_edges[pos].orientation_idx = @ + 1]
                 ELSE gvs,
                 g, first + 1)

notConnected(gvs, gv1, gv2) ==
    \A k \in 1 .. Len(gvs[gv1 + 1].local_edges) :
        ~(/\ gvs[gv1 + 1].local_edges[k].connected_to_idx >= LECI_Connected_Thresh
          /\ gvs[gv1 + 1].local_edges[k].connected_to_idx = gv2)

\* the insertion with the two new LEIs taken for each other
InsertLeiPairSwapped(gvs, s, p, ng, q, new_in, new_out) ==
    LET told == increment_opposite_connected_to_idx(
                    increment_opposite_connected_to_idx(gvs, s, p), ng, q)
    IN  [[told EXCEPT ![s + 1].local_edges = InsertAt(@, p, new_out)]
              EXCEPT ![ng + 1].local_edges = InsertAt(@, q, new_in)]

\* the insertion of a matched pair: the peers of the LEIs that will move are told
\* (first those of the pivot gvertex s, then those of the closing gvertex ng), then
\* new_in becomes LEI p of s and new_out LEI q of ng
InsertLeiPair(gvs, s, p, ng, q, new_in, new_out) ==
    LET told == increment_opposite_connected_to_idx(
                    increment_opposite_connected_to_idx(gvs, s, p), ng, q)
    IN  [[told EXCEPT ![s + 1].local_edges = InsertAt(@, p, new_in)]
              EXCEPT ![ng + 1].local_edges = InsertAt(@, q, new_out)]

\* the longest face trace, and the most LEIs of one pivot, that the model follows
\* before it reports that the repair does not come to an end
MaxRepairSteps == 40

\* the do-while loop that traces the face starting with LEI k of gvertex s;
\* st is [gvs, cg, cl, acc, edgeCreated, hung, threw, ins], where ins lists the
\* insertions made so far: the gvertices before and after, the pivot gvertex and
\* the slot of its new LEI, the closing gvertex and the slot of its new LEI, the
\* gvertex that holds current_outgoing_lei and the LEI of the pivot the walk began at
RECURSIVE RepairTrace(_, _, _, _, _)
RepairTrace(st, s, k, pivot_uv, steps) ==
    LET gvs     == st.gvs
        cur     == gvs[st.cg + 1].local_edges[st.cl + 1]
        ng      == cur.connected_to_idx
        ngv     == gvs[ng + 1]
        n       == Len(ngv.local_edges)
        ni      == cur.orientation_idx
        in_idx  == ni % n
        out_idx == (ni - 1) % n
        nin     == ngv.local_edges[in_idx + 1]
        nout    == ngv.local_edges[out_idx + 1]
        acc1    == TFMul(cur.accumulated_tf, st.acc)
        sgv     == gvs[s + 1]
        slei    == sgv.local_edges[k + 1]
        fin_idx == (k + 1) % Len(sgv.local_edges)
        final   == sgv.local_edges[fin_idx + 1]
        Throws(insert) ==
            \/ IntraGvThrows(nin.fh_from, nout.fh_from, ngv, in_idx # out_idx)
            \/ IntraGvThrows(nin.fh_from, face_handle(ngv.heh), ngv, TRUE)
            \/ insert /\ \/ IntraGvThrows(final.fh_from, slei.fh_from, sgv, TRUE)
                         \/ IntraGvThrows(final.fh_from, slei.fh_from, sgv, fin_idx # k)
                         \/ IntraGvThrows(slei.fh_from, face_handle(sgv.heh), sgv, TRUE)
        new_incoming_lei_tf ==
            TFInverse(TFMul(intra_gv_transition(final.fh_from, slei.fh_from, sgv, TRUE),
                      TFMul(TFInverse(intra_gv_transition(final.fh_from, slei.fh_from, sgv,
                                                          fin_idx # k)),
                            TFInverse(acc1))))
        new_outgoing_lei_tf ==
            TFInverse(TFMul(TFInverse(intra_gv_transition(nin.fh_from, face_handle(ngv.heh),
                                                          ngv, TRUE)),
                      TFMul(acc1,
                            TFInverse(intra_gv_transition(slei.fh_from, face_handle(sgv.heh),
                                                          sgv, TRUE)))))
        new_in  == completeInformation(LocalEdgeInfo(slei.fh_from, slei.uv_from, slei.uv_from),
                                       ng, in_idx, slei.uv_from, new_incoming_lei_tf)
        new_out == completeInformation(LocalEdgeInfo(nin.fh_from, nin.uv_from, nin.uv_from),
                                       s, k + 1, nin.uv_from, new_outgoing_lei_tf)
        \* the two zero-length LEIs are inserted
        Inserted == InsertLeiPair(gvs, s, k + 1, ng, in_idx, new_in, new_out)
        Go(insert, nxt) ==
            IF Throws(insert) THEN [st EXCEPT !.threw = TRUE]
            ELSE IF ng = s THEN nxt
            ELSE RepairTrace(nxt, s, k, pivot_uv, steps + 1)
        Decided(intra_face_tf, insert) ==
            Go(insert,
               [gvs |-> IF insert THEN Inserted ELSE gvs,
                cg |-> ng,
                cl |-> IF insert THEN ni % (n + 1) ELSE out_idx,
                acc |-> TFMul(intra_face_tf, acc1),
                edgeCreated |-> (st.edgeCreated \/ insert),
                hung |-> FALSE, threw |-> FALSE,
                ins |-> IF insert
                        THEN Append(st.ins,
                                    [before |-> gvs,
                                     after |-> Inserted,
                                     start_gv_idx |-> s, new_incoming |-> k + 1,
                                     next_gv |-> ng, new_outgoing |-> in_idx,
                                     current_from_gv |-> st.cg, walk |-> k])
                        ELSE st.ins])
        \* next_uv, the UV of the next gvertex in the chart of the start, is the pivot
        Turned(intra_face_tf) ==
            Decided(intra_face_tf,
                    /\ ~st.edgeCreated
                    /\ transform_point(TFInverse(TFMul(intra_face_tf, acc1)), nout.uv_from)
                       = pivot_uv
                    /\ ng # s
                    /\ notConnected(gvs, ng, s))
    IN  IF ~isConnected(cur) THEN st
        ELSE IF steps >= MaxRepairSteps THEN [st EXCEPT !.hung = TRUE]
        ELSE Turned(TFMul(intra_gv_transition(nin.fh_from, nout.fh_from, ngv,
                                              in_idx # out_idx),
                          TFInverse(intra_gv_transition(nin.fh_from, face_handle(ngv.heh),
                                                        ngv, TRUE))))

\* the loop over the LEIs of gvertex s (its end is read anew in every round)
RECURSIVE RepairGvertex(_, _, _)
RepairGvertex(res, s, k) ==
    LET Traced(t) == RepairGvertex([gvs |-> t.gvs, hung |-> t.hung, threw |-> t.threw,
                                    ins |-> t.ins],
                                   s, k + 1)
    IN  IF res.hung \/ res.threw \/ k >= Len(res.gvs[s + 1].local_edges) THEN res
        ELSE IF k >= MaxRepairSteps THEN [res EXCEPT !.hung = TRUE]
        ELSE Traced(RepairTrace([gvs |-> res.gvs, cg |-> s, cl |-> k, acc |-> IDENTITY,
                                 edgeCreated |-> FALSE, hung |-> FALSE, threw |-> FALSE,
                                 ins |-> res.ins],
                                s, k, res.gvs[s + 1].local_edges[k + 1].uv_from, 0))

(***************************************************************************)
(* The output mesh (an OpenMesh poly mesh).  Output vertex i is gvertex i; *)
(* halfedge h is qhe[h + 1], an edge owns the halfedges 2e and 2e + 1, and *)
(* face f has the halfedge qface[f + 1].  -1 is the invalid handle.        *)
(***************************************************************************)
QOpp(h) == IF h % 2 = 0 THEN h + 1 ELSE h - 1
QFace(q, h) == q.he[h + 1].face
\* set_next_halfedge_handle also stores the reverse link
set_next_halfedge_handle(q, h, nh) ==
    [q EXCEPT !.he[h + 1].next = nh, !.he[nh + 1].prev = h]
set_face_handle(q, h, f) == [q EXCEPT !.he[h + 1].face = f]
\* new_edge(from, to): halfedge 0 of the edge points to `to`
new_edge(q, from, to) ==
    [q EXCEPT !.he = @ \o << [from |-> from, to |-> to, face |-> -1, next |-> -1, prev |-> -1, luv |-> << >>],
                             [from |-> to, to |-> from, face |-> -1, next |-> -1, prev |-> -1, luv |-> << >>] >>]
\* adjust_outgoing_halfedge: the vertex gets a boundary outgoing halfedge if it has one
adjust_outgoing_halfedge(q, v) ==
    LET bs == {h \in 0 .. Len(q.he) - 1 : q.he[h + 1].from = v /\ q.he[h + 1].face = -1}
    IN  IF q.vhe[v + 1] # -1 /\ bs # {} THEN [q EXCEPT !.vhe[v + 1] = MinOf(bs)] ELSE q

\* a reference to an LEI is <<gvertex, slot>>
Ref(gvs, g, idx) == <<g, idx % Len(gvs[g + 1].local_edges)>>
At(gvs, ref) == gvs[ref[1] + 1].local_edges[ref[2] + 1]
PeerRef(gvs, ref) == Ref(gvs, At(gvs, ref).connected_to_idx, At(gvs, ref).orientation_idx)

RECURSIVE NextConnected(_, _, _, _, _)
NextConnected(gvs, g, last, o, direction) ==
    LET lei == Ref(gvs, g, o)
    IN  IF lei = last \/ (isConnected(At(gvs, lei)) /\ At(gvs, lei).halfedgeIndex # -1)
        THEN lei
        ELSE NextConnected(gvs, g, last, o + direction, direction)
getNextConnectedLeiWithHE(gvs, connected_to_idx, orientation_idx, direction) ==
    NextConnected(gvs, connected_to_idx, Ref(gvs, connected_to_idx, orientation_idx),
                  orientation_idx + direction, direction)

HasFace(gvs, q, ref) ==
    At(gvs, ref).halfedgeIndex # -1 /\ QFace(q, At(gvs, ref).halfedgeIndex) # -1

\* the manifold test of add_face for one LEI of the cycle
WouldBeNonManifold(gvs, q, ref) ==
    LET l    == At(gvs, ref)
        opp  == PeerRef(gvs, ref)
        onx  == getNextConnectedLeiWithHE(gvs, At(gvs, opp).connected_to_idx,
                                          At(gvs, opp).orientation_idx, -1)
        oopp == getNextConnectedLeiWithHE(gvs, l.connected_to_idx, l.orientation_idx, 1)
        oprv == PeerRef(gvs, oopp)
    IN  \/ HasFace(gvs, q, ref)
        \/ l.halfedgeIndex = -1 /\ (HasFace(gvs, q, onx) \/ HasFace(gvs, q, oprv))

\* ManifoldCheck left out: every cycle is accepted
ManifoldCheckOmitted(gvs, q, leis) == TRUE
ManifoldCheck(gvs, q, leis) == \A k \in 1 .. Len(leis) : ~WouldBeNonManifold(gvs, q, leis[k])

\* the two halfedges of a new edge stored in the LEIs: the wrong way round
StoreHalfedgeIndexSwapped(gvs, ref, opp, heh0, heh1) ==
    [[gvs EXCEPT ![ref[1] + 1].local_edges[ref[2] + 1].halfedgeIndex = heh1]
         EXCEPT ![opp[1] + 1].local_edges[opp[2] + 1].halfedgeIndex = heh0]
\* the two halfedges of a new edge stored in the LEIs: heh0 in the LEI of the
\* cycle, heh1 in the opposite LEI
StoreHalfedgeIndex(gvs, ref, opp, heh0, heh1) ==
    [[gvs EXCEPT ![ref[1] + 1].local_edges[ref[2] + 1].halfedgeIndex = heh0]
         EXCEPT ![opp[1] + 1].local_edges[opp[2] + 1].halfedgeIndex = heh1]

\* the halfedge of one LEI of the cycle is created (if missing) and given the face;
\* st is [gvs, q]
AddFaceHalfedge(st, ref, newFh, isFirst) ==
    LET l    == At(st.gvs, ref)
        opp  == PeerRef(st.gvs, ref)
        heh0 == Len(st.q.he)
        heh1 == Len(st.q.he) + 1
        \* the new edge is linked into the boundary around the opposite gvertex
        Linked(g2, q3, onx, oprv) ==
            [gvs |-> g2,
             q   |-> set_next_halfedge_handle(
                         set_next_halfedge_handle(q3, heh1, At(g2, onx).halfedgeIndex),
                         At(g2, oprv).halfedgeIndex, heh1)]
        Stored(g2, q3) ==
            Linked(g2, q3,
                   getNextConnectedLeiWithHE(g2, At(g2, opp).connected_to_idx,
                                             At(g2, opp).orientation_idx, -1),
                   PeerRef(g2, getNextConnectedLeiWithHE(g2, At(g2, ref).connected_to_idx,
                                                         At(g2, ref).orientation_idx, 1)))
        Made(from_vh, to_vh) ==
            Stored(StoreHalfedgeIndex(st.gvs, ref, opp, heh0, heh1),
                   [[new_edge(st.q, from_vh, to_vh)
                       EXCEPT !.vhe[from_vh + 1] = IF @ = -1 THEN heh0 ELSE @]
                       EXCEPT !.vhe[to_vh + 1] = IF @ = -1 THEN heh1 ELSE @])
        Attach(cur, h) ==
            [gvs |-> cur.gvs,
             q   |-> set_face_handle(IF isFirst THEN [cur.q EXCEPT !.face[newFh + 1] = h]
                                     ELSE cur.q, h, newFh)]
    IN  IF l.halfedgeIndex = -1
        THEN Attach(Made(At(st.gvs, opp).connected_to_idx, l.connected_to_idx), heh0)
        ELSE Attach(st, l.halfedgeIndex)

RECURSIVE AddFaceHalfedges(_, _, _, _)
AddFaceHalfedges(st, leis, k, newFh) ==
    IF k > Len(leis) THEN st
    ELSE AddFaceHalfedges(AddFaceHalfedge(st, leis[k], newFh, k = 1), leis, k + 1, newFh)

RECURSIVE LinkFace(_, _, _, _, _)
LinkFace(q, gvs, leis, k, newFh) ==
    IF k > Len(leis) THEN q
    ELSE LinkFace(set_face_handle(
                      set_next_halfedge_handle(q, At(gvs, leis[k - 1]).halfedgeIndex,
                                               At(gvs, leis[k]).halfedgeIndex),
                      At(gvs, leis[k]).halfedgeIndex, newFh),
                  gvs, leis, k + 1, newFh)

RECURSIVE AdjustAll(_, _, _, _)
AdjustAll(q, gvs, leis, k) ==
    IF k > Len(leis) THEN q
    ELSE AdjustAll(adjust_outgoing_halfedge(q, At(gvs, leis[k]).connected_to_idx),
                   gvs, leis, k + 1)

\* new_face: a face without a halfedge yet
new_face(q) == [q EXCEPT !.face = Append(@, -1)]

\* InvalidFace returned after the face has been allocated
InvalidFaceAfterAllocation(gvs, q) == [gvs |-> gvs, q |-> new_face(q), fh |-> -1]
\* the return of the invalid face handle when the manifold test fails
InvalidFace(gvs, q) == [gvs |-> gvs, q |-> q, fh |-> -1]

\* add_face: [gvs, q, fh]; fh = -1 is the invalid face handle
add_face(gvs, q, leis) ==
    LET newFh == Len(q.face)
        \* the halfedges of the face are linked, the last to the first (front) first
        Close(st, front, back) ==
            [gvs |-> st.gvs,
             q   |-> AdjustAll(LinkFace(set_face_handle(
                                            set_next_halfedge_handle(st.q, back, front),
                                            front, newFh),
                                        st.gvs, leis, 2, newFh),
                               st.gvs, leis, 1),
             fh  |-> newFh]
        Built(st) == Close(st, At(st.gvs, leis[1]).halfedgeIndex,
                           At(st.gvs, leis[Len(leis)]).halfedgeIndex)
    IN  IF ~ManifoldCheck(gvs, q, leis) THEN InvalidFace(gvs, q)
        ELSE Built(AddFaceHalfedges([gvs |-> gvs, q |-> new_face(q)], leis, 1, newFh))

(***************************************************************************)
(* generate_faces_and_store_quadmesh                                       *)
(***************************************************************************)
\* the safeguard of the cycle walk
MaxFaceVertices == 100

\* the walk that turns right at every gvertex; w is [gvs, vhs, leis, cg, co, closed]
\* the cycle walk that turns left at every gvertex
RECURSIVE CycleWalkTurningLeft(_, _, _)
CycleWalkTurningLeft(w, i, k) ==
    IF k >= MaxFaceVertices \/ w.cg < 0 THEN w
    ELSE IF w.cg = i /\ w.vhs # << >> THEN [w EXCEPT !.closed = TRUE]
    ELSE LET ref == Ref(w.gvs, w.cg, w.co)
             lei == At(w.gvs, ref)
         IN  IF lei.face_constructed THEN w
             ELSE CycleWalkTurningLeft(
                      [gvs |-> [w.gvs EXCEPT ![ref[1] + 1].local_edges[ref[2] + 1]
                                                .face_constructed = TRUE],
                       vhs |-> Append(w.vhs, w.cg),
                       leis |-> Append(w.leis, ref),
                       cg |-> lei.connected_to_idx,
                       co |-> lei.orientation_idx + 1,
                       closed |-> FALSE], i, k + 1)

RECURSIVE CycleWalk(_, _, _)
CycleWalk(w, i, k) ==
    IF k >= MaxFaceVertices \/ w.cg < 0 THEN w
    ELSE IF w.cg = i /\ w.vhs # << >> THEN [w EXCEPT !.closed = TRUE]
    ELSE LET ref == Ref(w.gvs, w.cg, w.co)
             lei == At(w.gvs, ref)
         IN  IF lei.face_constructed THEN w
             ELSE CycleWalk([gvs |-> [w.gvs EXCEPT ![ref[1] + 1].local_edges[ref[2] + 1]
                                                       .face_constructed = TRUE],
                             vhs |-> Append(w.vhs, w.cg),
                             leis |-> Append(w.leis, ref),
                             cg |-> lei.connected_to_idx,
                             co |-> lei.orientation_idx - 1,
                             closed |-> FALSE], i, k + 1)

\* the halfedges of face fh from its first halfedge on, following the next links
\* (at most as many as the mesh has)
RECURSIVE FaceHalfedges(_, _, _, _)
FaceHalfedges(q, h, start, acc) ==
    IF h = -1 \/ Len(acc) > Len(q.he) THEN acc
    ELSE IF h = start /\ acc # << >> THEN acc
    ELSE FaceHalfedges(q, q.he[h + 1].next, start, Append(acc, h))

\* the transfer of the local UVs onto the halfedges of the new face; st is
\* [q, tf, threw], poss the face's halfedges rotated to the first vertex
RECURSIVE TransferUvs(_, _, _, _, _)
TransferUvs(st, gvs, leis, poss, k) ==
    LET lei   == At(gvs, leis[k])
        h     == poss[((k - 1) % Len(poss)) + 1]
        Step(face_tf) ==
            TransferUvs([q |-> [st.q EXCEPT !.he[h + 1].luv =
                                    transform_point(TFInverse(face_tf), lei.uv_to)],
                         tf |-> TFMul(lei.accumulated_tf, face_tf),
                         threw |-> FALSE], gvs, leis, poss, k + 1)
        \* the turn at the gvertex pgv from the LEI lopp, the peer oref of the
        \* previous LEI of the cycle, to lei
        Turn(pgv, oref, lopp) ==
            IF \/ IntraGvThrows(lopp.fh_from, lei.fh_from, pgv, oref # leis[k])
               \/ IntraGvThrows(lopp.fh_from, face_handle(pgv.heh), pgv, TRUE)
            THEN [st EXCEPT !.threw = TRUE]
            ELSE Step(TFMul(TFMul(intra_gv_transition(lopp.fh_from, lei.fh_from, pgv,
                                                      oref # leis[k]),
                                  TFInverse(intra_gv_transition(lopp.fh_from,
                                                                face_handle(pgv.heh),
                                                                pgv, TRUE))),
                            st.tf))
    IN  IF k > Len(leis) \/ st.threw THEN st
        ELSE IF k = 1 THEN Step(TFMul(IDENTITY, st.tf))
        ELSE Turn(gvs[At(gvs, leis[k - 1]).connected_to_idx + 1],
                  PeerRef(gvs, leis[k - 1]),
                  At(gvs, PeerRef(gvs, leis[k - 1])))

\* the loop body for the start LEI (i, j): [gvs, q, threw, log]
AssembleFace(gvs, q, i, j) ==
    LET \* the local UVs are stored on the face's halfedges fhs; at holds the
        \* places in fhs of the halfedges that leave the first vertex of the cycle
        Transfer(w, af, fhs, at) ==
            LET Stored(tr) == [gvs |-> af.gvs, q |-> tr.q, threw |-> tr.threw, log |-> {}]
            IN  IF at = << >>
                THEN [gvs |-> af.gvs, q |-> af.q, threw |-> TRUE, log |-> {}]
                ELSE Stored(TransferUvs([q |-> af.q, tf |-> IDENTITY, threw |-> FALSE],
                                        af.gvs, w.leis, RotateSeq(fhs, at[1] - 1), 1))
        Located(w, af, fhs) ==
            Transfer(w, af, fhs,
                     SelectIdx(Len(fhs), LAMBDA x : af.q.he[fhs[x] + 1].from = w.vhs[1]))
        Added(w, af) ==
            IF af.fh = -1
            THEN [gvs |-> af.gvs, q |-> af.q, threw |-> FALSE,
                  log |-> {<<"skipping face", i, j>>}]
            ELSE Located(w, af, FaceHalfedges(af.q, af.q.face[af.fh + 1],
                                              af.q.face[af.fh + 1], << >>))
        Walked(w) ==
            IF ~(w.closed /\ Len(w.vhs) > 2)
            THEN [gvs |-> w.gvs, q |-> q, threw |-> FALSE, log |-> {}]
            ELSE Added(w, add_face(w.gvs, q, w.leis))
    IN  Walked(CycleWalk([gvs |-> gvs, vhs |-> << >>, leis |-> << >>, cg |-> i, co |-> j,
                          closed |-> FALSE], i, 0))

\* the empty output mesh with one vertex per gvertex, tagged where the gvertex is
\* a boundary gvertex
EmptyQuadMesh(gvs) ==
    [ he |-> << >>, face |-> << >>,
      vhe |-> [v \in 1 .. Len(gvs) |-> -1],
      tagged |-> [v \in 1 .. Len(gvs) |-> gvs[v].is_boundary],
      deleted |-> {} ]

\* PolyConnectivity::is_boundary(VertexHandle)
QIsBoundaryVertex(q, v) == q.vhe[v + 1] = -1 \/ QFace(q, q.vhe[v + 1]) = -1

\* the vertices met on the boundary loop that starts with halfedge h; a missing
\* next link ends the loop with the mark -1
RECURSIVE BoundaryLoop(_, _, _, _)
BoundaryLoop(q, h, start, acc) ==
    IF h = -1 THEN Append(acc, -1)
    ELSE IF Len(acc) > Len(q.he) \/ (h = start /\ acc # << >>) THEN acc
    ELSE BoundaryLoop(q, q.he[h + 1].next, start, Append(acc, q.he[h + 1].to))

\* the loop over the output vertices behind the face loop; st is [q, visited, ub]
RECURSIVE HoleLoop(_, _)
HoleLoop(st, v) ==
    IF v >= Len(st.q.vhe) \/ st.ub THEN st
    ELSE LET q     == st.q
             walk  == QIsBoundaryVertex(q, v) /\ ~q.tagged[v + 1] /\ v \notin st.visited
                      /\ q.vhe[v + 1] # -1
             bnd   == BoundaryLoop(q, q.vhe[v + 1], q.vhe[v + 1], << >>)
             vs    == {bnd[k] : k \in 1 .. Len(bnd)}
             found == \E x \in vs : x # -1 /\ q.tagged[x + 1]
             q1    == IF walk /\ found
                      THEN [q EXCEPT !.tagged = [x \in 1 .. Len(q.tagged) |->
                                                    q.tagged[x] \/ (x - 1) \in vs]]
                      ELSE q
             q2    == IF q1.vhe[v + 1] = -1 THEN [q1 EXCEPT !.deleted = @ \cup {v}] ELSE q1
         IN  IF walk /\ -1 \in vs THEN [st EXCEPT !.ub = TRUE]
             ELSE HoleLoop([q |-> q2,
                            visited |-> IF walk THEN st.visited \cup vs ELSE st.visited,
                            ub |-> FALSE], v + 1)

(***************************************************************************)
(* extract(): steps 1 to 4                                                 *)
(***************************************************************************)
\* the decimator (external): it reports whether it decimated
Decimate1 ==
    /\ pc = "decimate1"
    /\ \E d \in BOOLEAN : decimated' = d /\ decimator_reports' = Append(decimator_reports, d)
    /\ pc' = "extract_tf"
    /\ UNCHANGED <<m, precision, requested, released, uv, tf_, log, loop, threw, gvVars, quad_mesh>>

ExtractTransitionFunctions ==
    /\ pc = "extract_tf"
    /\ tf_' = extract_transition_functions(uv)
    /\ pc' = "truncate"
    /\ UNCHANGED <<m, precision, requested, released, uv, decimated, decimator_reports, log, loop, threw, gvVars, quad_mesh>>

ConsistentTruncation ==
    /\ pc = "truncate"
    /\ uv' = consistent_truncation(uv)
    /\ log' = log \cup TruncationLog
    /\ pc' = "decimate2"
    /\ UNCHANGED <<m, precision, requested, released, tf_, decimated, decimator_reports, loop, threw, gvVars, quad_mesh>>

\* the second call with its result stored in place of the first call's
Decimate2Overwrites ==
    /\ pc = "decimate2"
    /\ \E d \in BOOLEAN : /\ decimated' = d
                           /\ decimator_reports' = Append(decimator_reports, d)
    /\ pc' = "gen_vertices"
    /\ UNCHANGED <<m, precision, requested, released, uv, tf_, log, loop, threw, gvVars, quad_mesh>>

Decimate2 ==
    /\ pc = "decimate2"
    /\ \E d \in BOOLEAN : /\ decimated' = (decimated \/ d)
                           /\ decimator_reports' = Append(decimator_reports, d)
    /\ pc' = "gen_vertices"
    /\ UNCHANGED <<m, precision, requested, released, uv, tf_, log, loop, threw, gvVars, quad_mesh>>

GenerateVertices ==
    /\ pc = "gen_vertices"
    /\ LET Generated(st) ==
               /\ gvertices_' = st.gv
               /\ face_gvertices_' = st.fgv
               /\ edge_gvertices_' = st.egv
               /\ vertex_gvertices_' = st.vgv
       IN  Generated(generate_vertices(uv, EmbeddingOf(decimated)))
    /\ edge_valid_' = EdgeValid(uv)
    /\ pc' = "gen_connections"
    /\ loop' = 1
    /\ requested' = Append(requested, "face_colors")
    /\ UNCHANGED <<m, precision, released, uv, tf_, decimated, decimator_reports, log, threw, quad_mesh>>

\* generate_connections: the loop body for the next LEI, or the end of the loops
GenerateConnections ==
    /\ pc = "gen_connections"
    /\ LET order == LeiOrder(gvertices_)
           \* the trace of the LEI (i, j) has found target
           Traced(i, j, target) ==
               IF ConnectThrows(i, j, target)
               THEN /\ threw' = TRUE
                    /\ pc' = "aborted"
                    /\ UNCHANGED <<gvertices_, log, loop>>
               ELSE /\ gvertices_' = ConnectLEI(i, j, target)
                    /\ log' = IF PeerSlotTaken(i, j, target)
                              THEN log \cup {<<"peer slot taken", i, j>>} ELSE log
                    /\ loop' = loop + 1
                    /\ UNCHANGED <<pc, threw>>
           Body(i, j) ==
               IF isUnconnected(LEI(i, j)) /\ LEI(i, j).fh_from >= 0
               THEN Traced(i, j, find_path(GV(i), LEI(i, j), uv))
               ELSE /\ loop' = loop + 1
                    /\ UNCHANGED <<pc, gvertices_, log, threw>>
       IN  IF loop > Len(order)
           THEN /\ pc' = "repair"
                /\ loop' = 0
                /\ UNCHANGED <<gvertices_, log, threw>>
           ELSE Body(order[loop][1], order[loop][2])
    /\ UNCHANGED <<m, precision, requested, released, uv, tf_, decimated, decimator_reports, face_gvertices_, edge_gvertices_,
                   vertex_gvertices_, edge_valid_, quad_mesh>>

\* try_connect_incomplete_gvertices: the loop body for the next gvertex, or the
\* end of the loop
TryConnectIncompleteGvertices ==
    /\ pc = "repair"
    /\ IF loop >= Len(gvertices_)
       THEN /\ pc' = "gen_faces"
            /\ loop' = 0
            /\ UNCHANGED <<gvertices_, threw>>
       ELSE IF GV(loop).missing_leis = 0
       THEN /\ loop' = loop + 1
            /\ UNCHANGED <<pc, gvertices_, threw>>
       ELSE LET Repaired(res) ==
                    /\ gvertices_' = res.gvs
                    /\ threw' = res.threw
                    /\ pc' = IF res.threw THEN "aborted" ELSE IF res.hung THEN "hung" ELSE pc
                    /\ loop' = IF res.threw \/ res.hung THEN loop ELSE loop + 1
            IN  Repaired(RepairGvertex([gvs |-> gvertices_, hung |-> FALSE,
                                        threw |-> FALSE, ins |-> << >>], loop, 0))
    /\ UNCHANGED <<m, precision, requested, released, uv, tf_, decimated, decimator_reports, log, face_gvertices_, edge_gvertices_,
                   vertex_gvertices_, edge_valid_, quad_mesh>>

\* generate_faces_and_store_quadmesh, the beginning: the old output is cleared and
\* the vertices are added
ClearQuadMesh ==
    /\ pc = "gen_faces" /\ loop = 0
    /\ quad_mesh' = EmptyQuadMesh(gvertices_)
    /\ loop' = 1
    /\ requested' = Append(requested, "vertex_status")
    /\ UNCHANGED <<m, precision, released, pc, uv, tf_, decimated, decimator_reports, log, threw, gvVars>>

\* the loop body of the face loop for the next LEI, or the end of the loops
GenerateFaces ==
    /\ pc = "gen_faces" /\ loop >= 1
    /\ LET order == LeiOrder(gvertices_)
       IN  IF loop > Len(order)
           THEN /\ pc' = "holes"
                /\ UNCHANGED <<gvertices_, quad_mesh, log, threw, loop>>
           ELSE LET Assembled(r) ==
                        /\ gvertices_' = r.gvs
                        /\ quad_mesh' = r.q
                        /\ log' = log \cup r.log
                        /\ threw' = r.threw
                        /\ pc' = IF r.threw THEN "aborted" ELSE pc
                        /\ loop' = loop + 1
                    Body(i, j) ==
                        IF LEI(i, j).face_constructed
                        THEN /\ loop' = loop + 1
                             /\ UNCHANGED <<pc, gvertices_, quad_mesh, log, threw>>
                        ELSE Assembled(AssembleFace(gvertices_, quad_mesh, i, j))
                IN  Body(order[loop][1], order[loop][2])
    /\ UNCHANGED <<m, precision, requested, released, uv, tf_, decimated, decimator_reports, face_gvertices_, edge_gvertices_,
                   vertex_gvertices_, edge_valid_>>

\* the end of generate_faces_and_store_quadmesh: holes are counted and tagged,
\* isolated vertices removed
CountHoles ==
    /\ pc = "holes"
    /\ LET Counted(r) ==
               /\ quad_mesh' = r.q
               /\ pc' = IF r.ub THEN "undefined" ELSE "done"
       IN  Counted(HoleLoop([q |-> quad_mesh, visited |-> {}, ub |-> FALSE], 0))
    /\ UNCHANGED <<m, precision, requested, released, uv, tf_, decimated, decimator_reports, log, loop, threw, gvVars>>

\* IEEE 754 binary64
DoubleBits == 53

Init ==
    /\ m \in {Meshes[k] : k \in 1 .. Len(MeshIn)}
    /\ precision = DoubleBits
    /\ pc = "decimate1"
    /\ uv = m.uv0
    /\ tf_ = << >>
    /\ decimated = FALSE
    /\ decimator_reports = << >>
    /\ requested = << >>
    /\ released = << >>
    /\ log = {}
    /\ gvertices_ = << >>
    /\ face_gvertices_ = << >>
    /\ edge_gvertices_ = << >>
    /\ vertex_gvertices_ = << >>
    /\ edge_valid_ = << >>
    /\ loop = 0
    /\ threw = FALSE
    /\ quad_mesh = EmptyQuadMesh(<< >>)

Next ==
    \/ Decimate1
    \/ ExtractTransitionFunctions
    \/ ConsistentTruncation
    \/ Decimate2
    \/ GenerateVertices
    \/ GenerateConnections
    \/ TryConnectIncompleteGvertices
    \/ ClearQuadMesh
    \/ GenerateFaces
    \/ CountHoles

Spec == Init /\ [][Next]_vars

(***************************************************************************)
(* extract_transition_functions alone, on two triangles that share the     *)
(* edge 0-2: the chart of the first triangle holds the edge as a + d, the  *)
(* chart of the second is that chart turned by k quarter turns and shifted *)
(* by t.                                                                   *)
(***************************************************************************)
MaxEdge == 1
MaxShift == 1
PairMesh == InSquare
EdgeVectors == {<<2 * x, 2 * y>> : <<x, y>> \in
                   {d \in (-MaxEdge .. MaxEdge) \X (-MaxEdge .. MaxEdge) : d # <<0, 0>>}}
Shifts == (-MaxShift .. MaxShift) \X (-MaxShift .. MaxShift)
Anchors == {<<0, 0>>, <<2, -4>>}
PairIn(a, d, k, t) ==
    LET g == TF(k, t[1], t[2])
    IN  [ nv |-> 4, ext |-> << >>, flagged |-> {},
          faces |-> PairMesh.faces,
          fuv |-> << << a, VAdd(a, Rot(3, d)), VAdd(a, d) >>,
                     << transform_point(g, a), transform_point(g, VAdd(a, d)),
                        transform_point(g, VAdd(a, Rot(1, d))) >> >> ]
PairCharts ==
    {MeshTab(PairIn(a, d, k, t)).uv0 :
        a \in Anchors, d \in EdgeVectors, k \in 0 .. 3, t \in Shifts}

InitTF ==
    /\ m = MeshTab(PairMesh)
    /\ precision = DoubleBits
    /\ pc = "extract_tf"
    /\ uv \in PairCharts
    /\ tf_ = << >>
    /\ decimated = FALSE
    /\ decimator_reports = << >>
    /\ requested = << >>
    /\ released = << >>
    /\ log = {}
    /\ gvertices_ = << >>
    /\ face_gvertices_ = << >>
    /\ edge_gvertices_ = << >>
    /\ vertex_gvertices_ = << >>
    /\ edge_valid_ = << >>
    /\ loop = 0
    /\ threw = FALSE
    /\ quad_mesh = EmptyQuadMesh(<< >>)

NextTF == ExtractTransitionFunctions

SpecTF == InitTF /\ [][NextTF]_vars

(***************************************************************************)
(* consistent_truncation alone, in doubles of few bits: the two triangles   *)
(* of InSquare, whose charts hold the two vertices of the shared edge with *)
(* noise.                                                                  *)
(***************************************************************************)
MantissaBits == 5
MaxNoise == 1
Noise == -MaxNoise .. MaxNoise
NoisyIn(a0, a2, b0, b2) ==
    [ nv |-> 4, ext |-> << >>, flagged |-> {},
      faces |-> InSquare.faces,
      fuv   |-> << << <<a0, 0>>, <<4, 0>>, <<4 + a2, 4>> >>,
                   << <<b0, 0>>, <<4 + b2, 4>>, <<0, 4>> >> >> ]
NoisyCharts ==
    {MeshTab(NoisyIn(a0, a2, b0, b2)).uv0 : a0 \in Noise, a2 \in Noise, b0 \in Noise, b2 \in Noise}

InitTrunc ==
    /\ m = MeshTab(InSquare)
    /\ precision = MantissaBits
    /\ pc = "extract_tf"
    /\ uv \in NoisyCharts
    /\ tf_ = << >>
    /\ decimated = FALSE
    /\ decimator_reports = << >>
    /\ requested = << >>
    /\ released = << >>
    /\ log = {}
    /\ gvertices_ = << >>
    /\ face_gvertices_ = << >>
    /\ edge_gvertices_ = << >>
    /\ vertex_gvertices_ = << >>
    /\ edge_valid_ = << >>
    /\ loop = 0
    /\ threw = FALSE
    /\ quad_mesh = EmptyQuadMesh(<< >>)

NextTrunc == ExtractTransitionFunctions \/ ConsistentTruncation

SpecTrunc == InitTrunc /\ [][NextTrunc]_vars

(***************************************************************************)
(* The boundary snap of consistent_truncation alone, on UVs held in        *)
(* 1/SnapUnit so that 1e-4 is two units: the boundary edge 1 of InSquare,   *)
(* selected or not, with the UVs of its two halfedges near the integers 1   *)
(* and 2, off by 0.5e-4 or 2e-4.  No UV lies exactly 1e-4 from an integer,  *)
(* where the outcome of the comparison depends on the rounding of the      *)
(* subtraction.                                                            *)
(***************************************************************************)
SnapUnit == 2 * SnapToleranceInverse
MaxSnapInteger == 2
SnapOffsets == {-4, -1, 1, 4}
SnapValues == {k * SnapUnit + d : k \in 1 .. MaxSnapInteger, d \in SnapOffsets}
SnapEdge == 1

InitSnap ==
    /\ m \in {MeshTab([InSquare EXCEPT !.flagged = fl]) : fl \in {{}, {SnapEdge}}}
    /\ precision = DoubleBits
    /\ pc = "truncate"
    /\ \E a \in SnapValues, b \in SnapValues :
           \E c \in {SnapUnit + d : d \in SnapOffsets}, d \in {SnapUnit + d : d \in SnapOffsets} :
               uv = [[h \in DOMAIN m.uv0 |-> <<SnapUnit * m.uv0[h][1], SnapUnit * m.uv0[h][2]>>]
                        EXCEPT ![SnapEdge] = <<a, c>>, ![m.opp[SnapEdge]] = <<b, d>>]
    /\ tf_ = << >>
    /\ decimated = FALSE
    /\ decimator_reports = << >>
    /\ requested = << >>
    /\ released = << >>
    /\ log = {}
    /\ gvertices_ = << >>
    /\ face_gvertices_ = << >>
    /\ edge_gvertices_ = << >>
    /\ vertex_gvertices_ = << >>
    /\ edge_valid_ = << >>
    /\ loop = 0
    /\ threw = FALSE
    /\ quad_mesh = EmptyQuadMesh(<< >>)

\* consistent_truncation up to the end of the loop over the boundary edges
BoundarySnapStep ==
    /\ pc = "truncate"
    /\ uv' = BoundarySnap(uv, 1, SnapUnit)
    /\ pc' = "snapped"
    /\ UNCHANGED <<m, precision, requested, released, tf_, decimated, decimator_reports, log, loop, threw, gvVars,
                   quad_mesh>>

NextSnap == BoundarySnapStep

SpecSnap == InitSnap /\ [][NextSnap]_vars

(***************************************************************************)
(* The insertion of try_connect_incomplete_gvertices alone, on the LEI      *)
(* graphs of GraphGvertices gvertices with MaxLeis LEIs each: every slot is *)
(* unconnected or connected to another slot that is connected back to it,   *)
(* in the same gvertex or in another one.  A cycle walk starts at an LEI of *)
(* a pivot and one of its steps inserts the pair; the comparison of next_uv *)
(* with pivot_uv is left open.                                              *)
(***************************************************************************)
MaxLeis == 3
GraphGvertices == 3
GraphSlotCount == GraphGvertices * MaxLeis

\* the ways to connect the slots of S in reciprocal pairs
RECURSIVE Pairings(_)
Pairings(S) ==
    IF S = {} THEN {{}}
    ELSE LET x == MinOf(S)
         IN  Pairings(S \ {x})
             \cup UNION {{M \cup {{x, y}} : M \in Pairings(S \ {x, y})} : y \in S \ {x}}

GraphLEI(M, n) ==
    LET blank == LocalEdgeInfo(0, <<0, 0>>, <<2, 0>>)
        peers == {y \in 0 .. GraphSlotCount - 1 : y # n /\ {n, y} \in M}
    IN  IF peers = {} THEN blank
        ELSE completeInformation(blank, MinOf(peers) \div MaxLeis, MinOf(peers) % MaxLeis,
                                 <<2, 0>>, IDENTITY)

GraphOf(M) ==
    [g \in 1 .. GraphGvertices |->
        [GridVertex("OnFace", 0, <<0, 0>>, <<"graph", g>>, FALSE)
            EXCEPT !.missing_leis = 1,
                   !.local_edges = [j \in 1 .. MaxLeis |->
                                       GraphLEI(M, (g - 1) * MaxLeis + j - 1)]]]

LeiGraphs == {GraphOf(M) : M \in Pairings(0 .. GraphSlotCount - 1)}

InitInsert ==
    /\ m = MeshTab(InSquare)
    /\ precision = DoubleBits
    /\ pc = "repair"
    /\ uv = m.uv0
    /\ tf_ = << >>
    /\ decimated = FALSE
    /\ decimator_reports = << >>
    /\ requested = << >>
    /\ released = << >>
    /\ log = {}
    /\ gvertices_ \in LeiGraphs
    /\ face_gvertices_ = << >>
    /\ edge_gvertices_ = << >>
    /\ vertex_gvertices_ = << >>
    /\ edge_valid_ = << >>
    /\ loop = 0
    /\ threw = FALSE
    /\ quad_mesh = EmptyQuadMesh(<< >>)

\* the LEIs that are current_outgoing_lei in the cycle walk that starts at ref,
\* an LEI of gvertex s, as long as no pair is inserted
RECURSIVE WalkRefs(_, _, _, _)
WalkRefs(gvs, s, ref, steps) ==
    LET cur == At(gvs, ref)
        nxt == Ref(gvs, cur.connected_to_idx, cur.orientation_idx - 1)
    IN  IF ~isConnected(cur) \/ steps >= MaxRepairSteps THEN {}
        ELSE IF cur.connected_to_idx = s THEN {ref}
        ELSE {ref} \cup WalkRefs(gvs, s, nxt, steps + 1)

\* current_outgoing_lei->connected_to_idx as line 1069 reads it, after the two
\* insertions, through the pointer taken before them.  The pointer is stale when
\* it points into a sequence that has grown: it then reads the LEI it pointed at
\* (the old storage, or a slot in front of the insertion) or the LEI that has
\* moved into its slot, the new LEI not yet completed.
StaleConnectedTo(s, p, ng, q, ref) ==
    LET cur == At(gvertices_, ref)
        pos == IF ref[1] = s THEN p ELSE q
        now == IF ref[2] < pos THEN cur
               ELSE IF ref[2] = pos THEN LocalEdgeInfo(cur.fh_from, cur.uv_from, cur.uv_from)
               ELSE At(gvertices_, <<ref[1], ref[2] - 1>>)
    IN  IF ref[1] \in {s, ng}
        THEN {cur.connected_to_idx, now.connected_to_idx}
        ELSE {cur.connected_to_idx}

\* one cycle walk of gvertex s from its LEI k that inserts a pair at the step
\* whose current_outgoing_lei is ref
InsertOnWalk(s, k, ref) ==
    LET cur    == At(gvertices_, ref)
        ng     == cur.connected_to_idx
        in_idx == cur.orientation_idx % Len(GV(ng).local_edges)
        slei   == LEI(s, k)
        nin    == LEI(ng, in_idx)
        new_in(c) == completeInformation(LocalEdgeInfo(slei.fh_from, slei.uv_from, slei.uv_from),
                                         c, in_idx, slei.uv_from, IDENTITY)
        new_out == completeInformation(LocalEdgeInfo(nin.fh_from, nin.uv_from, nin.uv_from),
                                       s, k + 1, nin.uv_from, IDENTITY)
    IN  /\ ng # s
        /\ notConnected(gvertices_, ng, s)
        /\ \E c \in StaleConnectedTo(s, k + 1, ng, in_idx, ref) :
               gvertices_' = InsertLeiPair(gvertices_, s, k + 1, ng, in_idx, new_in(c), new_out)
        /\ log' = {<<"inserted", s, k + 1, ng, in_idx, ref[1]>>}

InsertStep ==
    /\ pc = "repair"
    /\ \E s \in 0 .. Len(gvertices_) - 1 :
           \E k \in 0 .. Len(GV(s).local_edges) - 1 :
               \E ref \in WalkRefs(gvertices_, s, <<s, k>>, 0) : InsertOnWalk(s, k, ref)
    /\ pc' = "inserted"
    /\ UNCHANGED <<m, precision, requested, released, uv, tf_, decimated, decimator_reports, loop, threw,
                   face_gvertices_, edge_gvertices_, vertex_gvertices_, edge_valid_, quad_mesh>>

NextInsert == InsertStep

SpecInsert == InitInsert /\ [][NextInsert]_vars

(***************************************************************************)
(* Properties                                                              *)
(***************************************************************************)
AfterConnections == pc \in {"repair", "gen_faces", "holes", "done", "undefined"}
Slots == {<<g, j>> \in (0 .. Len(gvertices_) - 1) \X (0 .. 12) :
              j < n_edges(GV(g))}

\* C1: index reciprocity.  Once generate_connections has finished, and all
\* through and after try_connect_incomplete_gvertices, a slot (g, j) connected
\* to gvertex c with orientation o finds slot (c, o) connected back to (g, j).
C1_IndexReciprocity ==
    AfterConnections =>
        \A s \in Slots :
            LET l == LEI(s[1], s[2])
            IN  isConnected(l) =>
                    /\ l.connected_to_idx < Len(gvertices_)
                    /\ l.orientation_idx \in 0 .. n_edges(GV(l.connected_to_idx)) - 1
                    /\ LEI(l.connected_to_idx, l.orientation_idx).connected_to_idx = s[1]
                    /\ LEI(l.connected_to_idx, l.orientation_idx).orientation_idx = s[2]

AfterFaces == pc \in {"holes", "done", "undefined"}
AllLeis(gvs) == {<<g, j>> \in (0 .. Len(gvs) - 1) \X (0 .. 12) :
                     j < Len(gvs[g + 1].local_edges)}
\* the halfedges met from the first halfedge of face f along the next links
FaceCycle(q, f) == FaceHalfedges(q, q.face[f + 1], q.face[f + 1], << >>)

\* C2: manifold output.  A step of face assembly never changes the face of an
\* output halfedge that already has one, and after face assembly the halfedge
\* cycles of two different faces share no halfedge.
C2_FaceKept ==
    \A h \in 1 .. Len(quad_mesh.he) :
        quad_mesh.he[h].face # -1 =>
            /\ h <= Len(quad_mesh'.he)
            /\ quad_mesh'.he[h].face = quad_mesh.he[h].face
C2_OneFacePerHalfedge ==
    AfterFaces =>
        \A f \in 0 .. Len(quad_mesh.face) - 1 :
            \A k \in 1 .. Len(FaceCycle(quad_mesh, f)) :
                quad_mesh.he[FaceCycle(quad_mesh, f)[k] + 1].face = f
C2_Manifold == [][C2_FaceKept]_vars /\ [](C2_OneFacePerHalfedge)

\* C4: gvertex indices are stable.  After generate_vertices no step changes the
\* number of gvertices or the type, anchor halfedge or position_uv of any of
\* them, and every connected_to_idx that denotes a gvertex is a valid index.
AfterGeneration == pc \notin {"decimate1", "extract_tf", "truncate", "decimate2",
                              "gen_vertices"}
C4_Kept ==
    AfterGeneration =>
        /\ Len(gvertices_') = Len(gvertices_)
        /\ \A g \in 1 .. Len(gvertices_) :
               /\ gvertices_'[g].type = gvertices_[g].type
               /\ gvertices_'[g].heh = gvertices_[g].heh
               /\ gvertices_'[g].position_uv = gvertices_[g].position_uv
               /\ \A j \in 1 .. Len(gvertices_'[g].local_edges) :
                      gvertices_'[g].local_edges[j].connected_to_idx < Len(gvertices_)
C4_IndicesStable == [][C4_Kept]_vars

Tracing == pc = "gen_connections" /\ loop <= Len(LeiOrder(gvertices_))
TracedGv == LeiOrder(gvertices_)[loop][1]
TracedSlot == LeiOrder(gvertices_)[loop][2]
IsSentinel(lei) ==
    lei.connected_to_idx \in {LECI_Traced_Into_Boundary, LECI_Traced_Into_Degeneracy}

\* C5: transition reciprocity.  When a step of generate_connections connects the
\* traced LEI L of gvertex g with the LEI P of gvertex g', the transitions compose
\* to the identity, P.acc * A(g',P)^-1 * L.acc * A(g,L)^-1 = IDENTITY, and
\* P.uv_to is g.position_uv taken into P's chart.
C5_Step ==
    (Tracing /\ isUnconnected(LEI(TracedGv, TracedSlot))
             /\ isConnected(gvertices_'[TracedGv + 1].local_edges[TracedSlot + 1])) =>
        LET g  == gvertices_'[TracedGv + 1]
            L  == g.local_edges[TracedSlot + 1]
            gp == gvertices_'[L.connected_to_idx + 1]
            P  == gp.local_edges[L.orientation_idx + 1]
            AL == intra_gv_transition(L.fh_from, face_handle(g.heh), g, TRUE)
            AP == intra_gv_transition(P.fh_from, face_handle(gp.heh), gp, TRUE)
        IN  /\ TFMul(P.accumulated_tf,
                     TFMul(TFInverse(AP), TFMul(L.accumulated_tf, TFInverse(AL))))
               = IDENTITY
            /\ P.uv_to = transform_point(
                             TFMul(TFInverse(AP), TFMul(L.accumulated_tf, TFInverse(AL))),
                             g.position_uv)
C5_TransitionReciprocity == [][C5_Step]_vars

Rejecting == pc = "gen_faces" /\ \E e \in log' \ log : e[1] = "skipping face"

\* C9: a rejected face changes nothing.  In a step in which add_face rejects the
\* cycle, the output mesh and the halfedgeIndex of every LEI stay as they are,
\* nothing is thrown and the face loop goes on with the next LEI.
C9_Step ==
    Rejecting =>
        /\ quad_mesh' = quad_mesh
        /\ \A s \in AllLeis(gvertices_) :
               gvertices_'[s[1] + 1].local_edges[s[2] + 1].halfedgeIndex
                   = LEI(s[1], s[2]).halfedgeIndex
        /\ AllLeis(gvertices_') = AllLeis(gvertices_)
        /\ pc' = "gen_faces" /\ loop' = loop + 1 /\ ~threw'
C9_RejectionChangesNothing == [][C9_Step]_vars

\* C10 as stated: an LEI that holds the sentinel TracedIntoBoundary or
\* TracedIntoDegeneracy holds it for the rest of generate_connections.
C10_SentinelStep ==
    pc = "gen_connections" =>
        \A s \in AllLeis(gvertices_) :
            IsSentinel(LEI(s[1], s[2])) =>
                gvertices_'[s[1] + 1].local_edges[s[2] + 1].connected_to_idx
                    = LEI(s[1], s[2]).connected_to_idx
C10_SentinelKept == [][C10_SentinelStep]_vars

\* C10, amended: the trace that ends with a sentinel connects no LEI; an LEI that
\* holds a sentinel loses it exactly in the step in which the trace of another
\* LEI lands on its slot, and is then connected to that LEI, which is connected
\* back to it.
C10_AmendedStep ==
    Tracing =>
        LET found == find_path(GV(TracedGv), LEI(TracedGv, TracedSlot), uv)
            traces == isUnconnected(LEI(TracedGv, TracedSlot))
                      /\ LEI(TracedGv, TracedSlot).fh_from >= 0
        IN  \A s \in AllLeis(gvertices_) :
                LET after == gvertices_'[s[1] + 1].local_edges[s[2] + 1]
                    lands == /\ traces
                             /\ found.connected_to_idx = s[1]
                             /\ found.orientation_idx = s[2]
                IN  /\ (traces /\ found.connected_to_idx < LECI_Connected_Thresh
                           /\ s # <<TracedGv, TracedSlot>>) =>
                           after.connected_to_idx = LEI(s[1], s[2]).connected_to_idx
                    /\ IsSentinel(LEI(s[1], s[2])) =>
                           IF lands
                           THEN /\ after.connected_to_idx = TracedGv
                                /\ after.orientation_idx = TracedSlot
                                /\ gvertices_'[TracedGv + 1].local_edges[TracedSlot + 1]
                                       .connected_to_idx = s[1]
                                /\ gvertices_'[TracedGv + 1].local_edges[TracedSlot + 1]
                                       .orientation_idx = s[2]
                           ELSE after.connected_to_idx = LEI(s[1], s[2]).connected_to_idx
C10_SentinelOverwrittenByPeer == [][C10_AmendedStep]_vars

\* the four end UVs of edge e as extract_transition_functions reads them
EdgeL0(e) == uv[e]
EdgeL1(e) == uv[prev_halfedge_handle(e)]
EdgeR0(e) == uv[prev_halfedge_handle(opposite_halfedge_handle(e))]
EdgeR1(e) == uv[opposite_halfedge_handle(e)]
IsLatticePoint(p) == IsLatticeCoord(p[1]) /\ IsLatticeCoord(p[2])
\* integer UVs at both ends in both triangles, and the edge of the one triangle
\* is the edge of the other turned by some quarter turns (the shift between them
\* is then an integer)
SeamlessIntegerEdge(e) ==
    /\ \A p \in {EdgeL0(e), EdgeL1(e), EdgeR0(e), EdgeR1(e)} : IsLatticePoint(p)
    /\ EdgeL0(e) # EdgeL1(e)
    /\ \E k \in 0 .. 3 :
           VSub(EdgeR0(e), EdgeR1(e)) = Rot(k, VSub(EdgeL0(e), EdgeL1(e)))
TransitionsExtracted == pc \notin {"decimate1", "extract_tf"}

\* C6: the transition stored for an interior edge with seamless integer UVs has a
\* rotation in 0 .. 3 and takes the UVs of both ends of the edge in the triangle
\* of halfedge 0 exactly onto their UVs in the triangle of halfedge 1; a boundary
\* edge stores (0, 0, 0).
C6_EdgeTransitionExact ==
    TransitionsExtracted =>
        \A k \in 1 .. Len(Mesh.edges) :
            LET e == Mesh.edges[k]
            IN  IF is_boundary_edge(e)
                THEN tf_[e] = TF(0, 0, 0)
                ELSE SeamlessIntegerEdge(e) =>
                         /\ tf_[e].r \in 0 .. 3
                         /\ transform_point(tf_[e], EdgeL0(e)) = EdgeR0(e)
                         /\ transform_point(tf_[e], EdgeL1(e)) = EdgeR1(e)

Truncated == pc \notin {"decimate1", "extract_tf", "truncate"}
InteriorVertices == {v \in 0 .. Mesh.nv - 1 : ~is_boundary_vertex(v)}
AnchorFixed(v) ==
    transform_point(transitionV(v), uv[Mesh.vih[v][1]]) = uv[Mesh.vih[v][1]]
PureShift(tf) == tf.r = 0 /\ tf # IDENTITY

\* C7 as stated: after consistent_truncation the transition around every interior
\* vertex fixes the UV at the vertex's first incoming halfedge.
C7_AnchorFixedEverywhere ==
    Truncated => \A v \in InteriorVertices : AnchorFixed(v)

\* C7, amended: after consistent_truncation the transition around an interior
\* vertex fixes the UV at the vertex's first incoming halfedge unless that
\* transition is a shift without rotation, which fixes no point.
C7_AnchorFixedUnlessShift ==
    Truncated =>
        \A v \in InteriorVertices : AnchorFixed(v) <=> ~PureShift(transitionV(v))

\* a step of generate_connections in which the trace of the LEI (TracedGv,
\* TracedSlot) lands on a peer slot that is already connected
LandsOnTakenSlot ==
    pc = "gen_connections" /\ \E e \in log' \ log : e[1] = "peer slot taken"
\* the LEIs whose trace has landed on a peer slot that was already connected
ResetSlots == {<<e[2], e[3]>> : e \in {t \in log : t[1] = "peer slot taken"}}

\* C11, the step itself: when the trace of L lands on a peer slot that is already
\* connected, every LEI other than L (the peer and the peer's partner among
\* them) and every gvertex field stay as they are, and L is left with
\* connected_to_idx = NoConnection.
C11_TakenStep ==
    LandsOnTakenSlot =>
        /\ AllLeis(gvertices_') = AllLeis(gvertices_)
        /\ \A s \in AllLeis(gvertices_) :
               s # <<TracedGv, TracedSlot>> =>
                   gvertices_'[s[1] + 1].local_edges[s[2] + 1] = LEI(s[1], s[2])
        /\ \A g \in 1 .. Len(gvertices_) :
               [gvertices_'[g] EXCEPT !.local_edges = << >>]
                   = [gvertices_[g] EXCEPT !.local_edges = << >>]
        /\ gvertices_'[TracedGv + 1].local_edges[TracedSlot + 1].connected_to_idx
               = LECI_No_Connection

\* C11 as stated: the step as above, and L is not connected when the connector has
\* finished and the repair walk starts, so that no walk follows it.
C11_ResetStaysUnconnected ==
    (pc = "gen_connections" \/ (pc = "repair" /\ loop = 0)) =>
        \A s \in ResetSlots : ~isConnected(LEI(s[1], s[2]))
C11_LeftUnconnected == [][C11_TakenStep]_vars /\ []C11_ResetStaysUnconnected

\* C11, amended: the step as above; L then stays unconnected until the trace of
\* another LEI lands on L's own slot, which connects L to that LEI and that LEI
\* back to L.
C11_ReconnectStep ==
    pc = "gen_connections" =>
        \A s \in ResetSlots :
            LET after == gvertices_'[s[1] + 1].local_edges[s[2] + 1]
            IN  IF ~isConnected(LEI(s[1], s[2])) /\ isConnected(after)
                THEN /\ Tracing
                     /\ after.connected_to_idx = TracedGv
                     /\ after.orientation_idx = TracedSlot
                     /\ gvertices_'[TracedGv + 1].local_edges[TracedSlot + 1]
                            .connected_to_idx = s[1]
                     /\ gvertices_'[TracedGv + 1].local_edges[TracedSlot + 1]
                            .orientation_idx = s[2]
                ELSE after = LEI(s[1], s[2])
C11_UnconnectedUntilHit == [][C11_TakenStep /\ C11_ReconnectStep]_vars

\* the tag of the report "non-identity transition function cannot have a
\* different rotation than 1,2,3" for vertex v
Reported(v) == <<"inconsistent", v>> \in log
Anchor(v) == Mesh.vih[v][1]
\* the UVs around vertex w are those that the propagation through the one-ring
\* yields from the UV at w's first incoming halfedge
OneRingPropagated(w) == Propagate(uv, Mesh.vih[w], 2, uv[Anchor(w)]) = uv

\* C12 as stated: after consistent_truncation every interior vertex whose
\* transition is a shift without rotation has been reported, its UV at the first
\* incoming halfedge is the input UV, and the one-ring of every vertex has been
\* propagated.
C12_EveryShiftReported ==
    Truncated =>
        \A v \in InteriorVertices :
            PureShift(transitionV(v)) =>
                /\ Reported(v)
                /\ uv[Anchor(v)] = Mesh.uv0[Anchor(v)]
                /\ \A w \in 0 .. Mesh.nv - 1 : OneRingPropagated(w)

\* C12, amended: as above, but the vertex is reported exactly when the shift has
\* |tu| + |tv| > 1; a shift by one unit along one axis is not reported.
C12_ShiftReportedAboveOne ==
    Truncated =>
        \A v \in InteriorVertices :
            PureShift(transitionV(v)) =>
                /\ Reported(v) <=> Abs(transitionV(v).tu) + Abs(transitionV(v).tv) > 1
                /\ uv[Anchor(v)] = Mesh.uv0[Anchor(v)]
                /\ \A w \in 0 .. Mesh.nv - 1 : OneRingPropagated(w)

\* C13: consistent_truncation is idempotent.  The UV vector that
\* consistent_truncation has produced is a fixed point of consistent_truncation
\* under the same transition functions.
C13_TruncationIdempotent ==
    pc = "decimate2" => consistent_truncation(uv) = uv

\* x (in 1/SnapUnit) lies within 1e-4 of the integer n
NearInteger(x, n) == Abs(x - n * SnapUnit) * SnapToleranceInverse < SnapUnit
SnapIntegers == 0 .. MaxSnapInteger + 1
Selected(e) == is_boundary_edge(e) /\ e \in Mesh.flagged
Snapping == pc = "truncate" /\ pc' = "snapped"

\* C14 as stated: in the snap step the UVs of the two halfedges of a selected or
\* feature boundary edge are replaced on an axis exactly when both lie within
\* 1e-4 of the same integer, and then by that integer; otherwise neither changes.
C14_SameIntegerStep ==
    Snapping =>
        \A k \in 1 .. Len(Mesh.edges), ax \in 1 .. 2 :
            LET h0 == Mesh.edges[k]
                h1 == opposite_halfedge_handle(h0)
            IN  IF Selected(h0) /\ \E n \in SnapIntegers :
                                       NearInteger(uv[h0][ax], n) /\ NearInteger(uv[h1][ax], n)
                THEN \E n \in SnapIntegers :
                         /\ NearInteger(uv[h0][ax], n)
                         /\ uv'[h0][ax] = n * SnapUnit /\ uv'[h1][ax] = n * SnapUnit
                ELSE uv'[h0][ax] = uv[h0][ax] /\ uv'[h1][ax] = uv[h1][ax]
C14_SnapToSameInteger == [][C14_SameIntegerStep]_vars

\* C14, amended: the two UVs are replaced on an axis exactly when each lies within
\* 1e-4 of an integer, and then each by the integer it is near (the two integers
\* may differ); a UV 2e-4 away from its nearest integer, or an edge that is
\* neither selected nor feature, leaves both as they are.
C14_EachIntegerStep ==
    Snapping =>
        \A k \in 1 .. Len(Mesh.edges), ax \in 1 .. 2 :
            LET h0 == Mesh.edges[k]
                h1 == opposite_halfedge_handle(h0)
            IN  IF Selected(h0) /\ \E n0, n1 \in SnapIntegers :
                                       NearInteger(uv[h0][ax], n0) /\ NearInteger(uv[h1][ax], n1)
                THEN \E n0, n1 \in SnapIntegers :
                         /\ NearInteger(uv[h0][ax], n0) /\ NearInteger(uv[h1][ax], n1)
                         /\ uv'[h0][ax] = n0 * SnapUnit /\ uv'[h1][ax] = n1 * SnapUnit
                ELSE uv'[h0][ax] = uv[h0][ax] /\ uv'[h1][ax] = uv[h1][ax]
C14_SnapToNearestInteger == [][C14_EachIntegerStep]_vars

\* C15: lattice points on triangle edges.  The lattice points of a segment's
\* bounding box, the OnEdge gvertices of edge e at a point, and a point of the
\* chart of halfedge h's triangle read in the chart of the triangle of the
\* edge's own halfedge (generate_vertices reads an edge in that chart only).
LatticePointsOn(p0, p1) ==
    {p \in (Min2(p0[1], p1[1]) .. Max2(p0[1], p1[1])) \X (Min2(p0[2], p1[2]) .. Max2(p0[2], p1[2])) :
        IsLatticePoint(p) /\ SegHasOn(p0, p1, p) /\ p # p0 /\ p # p1}
OnEdgeAt(e, p) ==
    {k \in 1 .. Len(edge_gvertices_[e]) :
        /\ GV(edge_gvertices_[e][k]).type = "OnEdge"
        /\ GV(edge_gvertices_[e][k]).heh = e
        /\ GV(edge_gvertices_[e][k]).position_uv = p}
OnFaceAt(fh, p) ==
    {k \in 1 .. Len(face_gvertices_[fh]) : GV(face_gvertices_[fh][k]).position_uv = p}
InEdgeChart(h, p) == IF h = edge_handle(h) THEN p ELSE transform_point(transitionHE(h), p)
InputHalfedges == 0 .. 3 * Mesh.nf - 1
NoOnFaceAtEdgePoint(h, p) ==
    /\ OnFaceAt(face_handle(h), p) = {}
    /\ ~is_boundary_he(opposite_halfedge_handle(h)) =>
           OnFaceAt(face_handle(opposite_halfedge_handle(h)), transform_point(transitionHE(h), p)) = {}
NoOnEdgeAtEndpoint ==
    \A e \in EdgeSet : \A k \in 1 .. Len(edge_gvertices_[e]) :
        GV(edge_gvertices_[e][k]).position_uv \notin {uv[e], uv[prev_halfedge_handle(e)]}
\* C15 as stated: for every lattice point p strictly inside an edge of a
\* non-degenerate UV triangle, whichever of the two incident triangles it is,
\* there is exactly one OnEdge gvertex of that edge at p, no OnFace gvertex at p
\* in either incident triangle, and no OnEdge gvertex at an edge endpoint.
C15_OneOnEdgePerLatticePoint ==
    AfterGeneration =>
        /\ \A h \in InputHalfedges :
               TriOrientation(FaceTri(uv, face_handle(h))) # 0 =>
                   \A p \in LatticePointsOn(uv[h], uv[prev_halfedge_handle(h)]) :
                       /\ Cardinality(OnEdgeAt(edge_handle(h), InEdgeChart(h, p))) = 1
                       /\ NoOnFaceAtEdgePoint(h, p)
        /\ NoOnEdgeAtEndpoint
\* C15 amended: the same for every lattice point strictly inside the edge's UV
\* segment as it lies in the triangle of the edge's own halfedge (the chart
\* generate_vertices reads); the segment of the other incident triangle is not
\* looked at.  No OnFace gvertex lies on an edge of its triangle, and no OnEdge
\* gvertex at an endpoint.
C15_OneOnEdgePerLatticePointOfEdgeChart ==
    AfterGeneration =>
        /\ \A e \in EdgeSet :
               \A p \in LatticePointsOn(uv[e], uv[prev_halfedge_handle(e)]) :
                   Cardinality(OnEdgeAt(e, p)) = 1
        /\ \A h \in InputHalfedges :
               \A p \in LatticePointsOn(uv[h], uv[prev_halfedge_handle(h)]) :
                   NoOnFaceAtEdgePoint(h, p)
        /\ NoOnEdgeAtEndpoint

\* C16: a triangle of UV orientation zero has no OnFace gvertex, and each of
\* its edges whose UV segment is not degenerate is marked edge_valid and has
\* exactly one OnEdge gvertex at every lattice point strictly inside the segment.
ZeroTriangles == {f \in 0 .. Mesh.nf - 1 : TriOrientation(FaceTri(uv, f)) = 0}
C16_ZeroTriangleKeepsEdges ==
    AfterGeneration =>
        \A f \in ZeroTriangles :
            /\ face_gvertices_[f] = << >>
            /\ \A h \in {3 * f, 3 * f + 1, 3 * f + 2} :
                   uv[h] # uv[prev_halfedge_handle(h)] =>
                       /\ edge_valid_[edge_handle(h)]
                       /\ \A p \in LatticePointsOn(uv[h], uv[prev_halfedge_handle(h)]) :
                              Cardinality(OnEdgeAt(edge_handle(h), InEdgeChart(h, p))) = 1

\* C17: triangles of negative UV orientation (folds) and the lattice points
\* strictly inside a triangle
NegativeTriangles == {f \in 0 .. Mesh.nf - 1 : TriOrientation(FaceTri(uv, f)) < 0}
InsideLatticePoints(f) ==
    {p \in (MinOf({uv[3 * f + k][1] : k \in 0 .. 2}) .. MaxOf({uv[3 * f + k][1] : k \in 0 .. 2}))
           \X (MinOf({uv[3 * f + k][2] : k \in 0 .. 2}) .. MaxOf({uv[3 * f + k][2] : k \in 0 .. 2})) :
        IsLatticePoint(p) /\ has_on_bounded_side(FaceTri(uv, f), p)}
OnFaceGVsAt(f, p) ==
    {k \in 1 .. Len(face_gvertices_[f]) :
        /\ GV(face_gvertices_[f][k]).type = "OnFace"
        /\ GV(face_gvertices_[f][k]).heh = 3 * f
        /\ GV(face_gvertices_[f][k]).position_uv = p}
\* C17 as stated: a triangle of negative UV orientation has no OnFace gvertex.
C17_NoOnFaceInNegativeTriangle ==
    AfterGeneration => \A f \in NegativeTriangles : face_gvertices_[f] = << >>
\* C17 amended: a triangle of negative UV orientation has exactly one OnFace
\* gvertex at every lattice point strictly inside it and no other; only a
\* triangle of orientation zero is skipped.
C17_OnFaceInNegativeTriangle ==
    AfterGeneration =>
        \A f \in NegativeTriangles :
            /\ \A p \in InsideLatticePoints(f) : Cardinality(OnFaceGVsAt(f, p)) = 1
            /\ Len(face_gvertices_[f]) = Cardinality(InsideLatticePoints(f))

\* C18: every gvertex stored has a position_uv with integer coordinates; an
\* input vertex whose canonical UV (the UV at vertex_to_halfedge_) is integer has
\* exactly one OnVertex gvertex, at that UV, and a vertex whose canonical UV is
\* not integer has none.
CanonicalUV(v) == uv[Mesh.vih[v][1]]
OnVertexGVs == {g \in 1 .. Len(gvertices_) : gvertices_[g].type = "OnVertex"}
C18_IntegerPositions ==
    AfterGeneration =>
        /\ \A g \in 1 .. Len(gvertices_) :
               /\ gvertices_[g].type \in {"OnFace", "OnEdge", "OnVertex"}
               /\ IsLatticePoint(gvertices_[g].position_uv)
        /\ \A v \in 0 .. Mesh.nv - 1 :
               IF IsLatticePoint(CanonicalUV(v))
               THEN /\ Len(vertex_gvertices_[v]) = 1
                    /\ GV(vertex_gvertices_[v][1]).type = "OnVertex"
                    /\ GV(vertex_gvertices_[v][1]).heh = Mesh.vih[v][1]
                    /\ GV(vertex_gvertices_[v][1]).position_uv = CanonicalUV(v)
               ELSE vertex_gvertices_[v] = << >>
        /\ OnVertexGVs = {vertex_gvertices_[v][1] + 1 :
                             v \in {w \in 0 .. Mesh.nv - 1 : vertex_gvertices_[w] # << >>}}

\* C19: missing_leis is never negative, for every gvertex in every state, and
\* try_connect_incomplete_gvertices starts its walks only from gvertices with
\* missing_leis > 0: a step of the repair loop changes the gvertices only when
\* the gvertex it stands at has missing_leis > 0.
C19_RepairStartsFromMissing ==
    (pc = "repair" /\ loop < Len(gvertices_) /\ gvertices_' # gvertices_) =>
        GV(loop).missing_leis > 0
C19_NotNegative == \A g \in 1 .. Len(gvertices_) : gvertices_[g].missing_leis >= 0
C19_MissingLeisNotNegative == []C19_NotNegative /\ [][C19_RepairStartsFromMissing]_vars

\* C20: the decimator is called exactly twice, once before the transition
\* functions are extracted and the UVs truncated and once after the truncation.
DecimatorCalls ==
    Len(decimator_reports) = IF pc = "decimate1" THEN 0
                             ELSE IF pc \in {"extract_tf", "truncate", "decimate2"} THEN 1
                             ELSE 2
FromCache(g) == gvertices_[g].position_3d[1] = "HeVectorEmbedding"
FromCurrentMesh(g) == gvertices_[g].position_3d[1] = "OriginalEmbedding"
\* C20 as stated: the 3D positions of the gvertices come from the cache of
\* halfedge points taken before decimation if and only if the second call
\* reports decimation, and from the current mesh otherwise, whatever the first
\* call reported.
C20_CacheIffSecondCallDecimates ==
    /\ DecimatorCalls
    /\ AfterGeneration =>
           \A g \in 1 .. Len(gvertices_) :
               IF decimator_reports[2] THEN FromCache(g) ELSE FromCurrentMesh(g)
\* C20 amended: they come from the cache if and only if at least one of the two
\* calls reports decimation, and from the current mesh when neither does.
C20_CacheIffEitherCallDecimates ==
    /\ DecimatorCalls
    /\ AfterGeneration =>
           \A g \in 1 .. Len(gvertices_) :
               IF decimator_reports[1] \/ decimator_reports[2]
               THEN FromCache(g) ELSE FromCurrentMesh(g)

\* C21: scoped acquisition.  When extract() has been left, by its normal return
\* or by an exception, every property it requested on tri_mesh_ (face colors,
\* vertex status) has been released again: as many releases as requests.
Count(seq, x) == Cardinality({k \in 1 .. Len(seq) : seq[k] = x})
ExtractLeft == pc \in {"done", "aborted"}
C21_PropertiesReleased ==
    ExtractLeft =>
        \A prop \in {"face_colors", "vertex_status"} :
            Count(released, prop) = Count(requested, prop)

\* C22: every trace terminates.  The value of walk_iterations with which
\* find_path returns for the LEI lei of gv: the number of edges crossed in the
\* main walking loop.
RECURSIVE WalkIterations(_, _, _)
WalkIterations(w, walk_iterations, uvc) ==
    IF walk_iterations >= MaxWalkIterations \/ is_boundary_he(w.cur_heh) THEN walk_iterations
    ELSE LET tri     == <<uvc[w.cur_heh], uvc[next_halfedge_handle(w.cur_heh)],
                          uvc[next_halfedge_handle(next_halfedge_handle(w.cur_heh))]>>
             tri_ori == TriOrientation(tri)
             swap    == PathSwapped(tri_ori, w.inverted)
             uv_from == IF swap THEN w.uv_to ELSE w.uv_from
             uv_to   == IF swap THEN w.uv_from ELSE w.uv_to
             heh_upd == WalkLeave(w.cur_heh, uv_from, uv_to, tri, tri_ori)
             tf      == transitionHE(heh_upd)
         IN  IF \/ tri_ori = 0 /\ ~(tri[1] # tri[2] /\ tri[2] # tri[3] /\ tri[3] # tri[1])
                \/ TriBoundedness(tri, uv_to) \in {"in", "on"}
                \/ heh_upd = -1
                \/ ~edge_valid_[edge_handle(heh_upd)]
             THEN walk_iterations
             ELSE WalkIterations([cur_heh |-> opposite_halfedge_handle(heh_upd),
                                  uv_from |-> transform_point(tf, uv_from),
                                  uv_original_from |-> transform_point(tf, w.uv_original_from),
                                  uv_to |-> transform_point(tf, uv_to),
                                  accumulated_tf |-> TFMul(tf, w.accumulated_tf),
                                  inverted |-> (tri_ori = -1)],
                                 walk_iterations + 1, uvc)
\* the state of find_path when it enters the main walking loop, << >> if it
\* returns before
WalkStart(gv, lei, uvc) ==
    LET heh0    == 3 * lei.fh_from
        heh1    == next_halfedge_handle(heh0)
        heh2    == next_halfedge_handle(heh1)
        tri     == <<uvc[heh0], uvc[heh1], uvc[heh2]>>
        cur_heh == FirstHalfedge(gv, lei, heh0, heh1, heh2, tri, uvc)
        tf      == transitionHE(cur_heh)
    IN  IF \/ TriBoundedness(tri, lei.uv_intended_to) \in {"in", "on"}
           \/ cur_heh = -1
           \/ ~edge_valid_[edge_handle(cur_heh)]
        THEN << >>
        ELSE << FirstCrossing(lei, cur_heh, tf, TriOrientation(tri)) >>
TraceIterations(gv, lei, uvc) ==
    IF WalkStart(gv, lei, uvc) = << >> THEN 0
    ELSE WalkIterations(WalkStart(gv, lei, uvc)[1], 0, uvc)
\* generate_connections stands at an LEI that it traces
TraceStarts ==
    /\ pc = "gen_connections" /\ loop <= Len(LeiOrder(gvertices_))
    /\ isUnconnected(LEI(TracedGv, TracedSlot)) /\ LEI(TracedGv, TracedSlot).fh_from >= 0
\* what the traced LEI holds after the step is one of: a peer (a gvertex index
\* and a slot index of that gvertex), the signal TracedIntoBoundary, the signal
\* TracedIntoDegeneracy, or the error result, with which the LEI is not
\* connected; a peer whose slot was taken is removed again, and an exception of
\* the caller leaves the LEI as it was
TraceResult(i, j) ==
    LET after == gvertices_'[i + 1].local_edges[j + 1]
    IN  \/ /\ isConnected(after)
           /\ after.connected_to_idx < Len(gvertices_')
           /\ after.orientation_idx \in
                  0 .. Len(gvertices_'[after.connected_to_idx + 1].local_edges) - 1
        \/ after.connected_to_idx \in {LECI_Traced_Into_Boundary, LECI_Traced_Into_Degeneracy}
        \/ after.connected_to_idx = LECI_Tracing_Error /\ ~isConnected(after)
        \/ after.connected_to_idx = LECI_No_Connection
               /\ (<<"peer slot taken", i, j>> \in log' \/ threw')
C22_Step ==
    TraceStarts =>
        /\ TraceIterations(GV(TracedGv), LEI(TracedGv, TracedSlot), uv) <= MaxWalkIterations
        /\ TraceResult(TracedGv, TracedSlot)
        /\ pc' \in {"gen_connections", "aborted"}
C22_TraceTerminates == [][C22_Step]_vars



\* the slot an LEI (g, j) of before has in after, ins being the insertion
NewSlot(ins, g, j) ==
    IF (g = ins.start_gv_idx /\ j >= ins.new_incoming)
       \/ (g = ins.next_gv /\ j >= ins.new_outgoing)
    THEN <<g, j + 1>> ELSE <<g, j>>

\* the LEI (g, j) of gvs is connected to an LEI that is connected back to it
PointsBack(gvs, g, j) ==
    LET peer == At(gvs, PeerRef(gvs, <<g, j>>))
    IN  /\ peer.connected_to_idx = g
        /\ Ref(gvs, g, peer.orientation_idx) = <<g, j>>

\* every LEI connected before still finds its peer pointing at its new slot,
\* the two new LEIs point at each other, and the indices of the old LEIs have
\* changed only by the shift of their peers
KeepsReciprocity(ins) ==
    LET old == {<<g, j>> \in (0 .. Len(ins.before) - 1) \X (0 .. 12) :
                   j < Len(ins.before[g + 1].local_edges)}
        new_in  == <<ins.start_gv_idx, ins.new_incoming>>
        new_out == <<ins.next_gv, ins.new_outgoing>>
    IN  /\ \A r \in old :
               LET b == At(ins.before, r)
                   a == At(ins.after, NewSlot(ins, r[1], r[2]))
               IN  /\ a.connected_to_idx = b.connected_to_idx
                   /\ isConnected(b) /\ PointsBack(ins.before, r[1], r[2]) =>
                          /\ PointsBack(ins.after, NewSlot(ins, r[1], r[2])[1],
                                        NewSlot(ins, r[1], r[2])[2])
                          /\ Ref(ins.after, a.connected_to_idx, a.orientation_idx)
                             = NewSlot(ins, PeerRef(ins.before, r)[1], PeerRef(ins.before, r)[2])
                   /\ ~isConnected(b) => a.orientation_idx = b.orientation_idx
        /\ PeerRef(ins.after, new_in) = new_out
        /\ PeerRef(ins.after, new_out) = new_in

InsertionOfStep ==
    {[before |-> gvertices_, after |-> gvertices_', start_gv_idx |-> t[2],
      new_incoming |-> t[3], next_gv |-> t[4], new_outgoing |-> t[5]] :
        t \in {u \in log' : u[1] = "inserted"}}

RepairOf(g) ==
    RepairGvertex([gvs |-> gvertices_, hung |-> FALSE, threw |-> FALSE, ins |-> << >>], g, 0)
Repairing == pc = "repair" /\ loop < Len(gvertices_) /\ GV(loop).missing_leis # 0
C23_RepairKeepsReciprocity ==
    Repairing =>
        \A n \in 1 .. Len(RepairOf(loop).ins) : KeepsReciprocity(RepairOf(loop).ins[n])

\* C24: the fan repair terminates.  On the LEI graph that the connector has
\* produced, the repair of a pivot never follows a cycle walk that neither comes
\* back to the pivot nor reaches an unconnected LEI, and the loop over the LEIs
\* of the pivot, the inserted ones included, ends after at most one insertion
\* for every other gvertex.
C24_RepairTerminates ==
    /\ pc # "hung"
    /\ Repairing => /\ ~RepairOf(loop).hung
                    /\ Len(RepairOf(loop).ins) < Len(gvertices_)

\* an LEI that the repair has inserted: its intended end is its start
InsertedByRepair(lei) == isConnected(lei) /\ lei.uv_intended_to = lei.uv_from

\* the pair of ins joins the pivot and another gvertex that were not joined before
JoinsNewNeighbour(ins) ==
    LET s  == ins.start_gv_idx
        ng == ins.next_gv
    IN  /\ ng # s
        /\ \A k \in 1 .. Len(ins.before[s + 1].local_edges) :
               ins.before[s + 1].local_edges[k].connected_to_idx # ng
        /\ At(ins.after, <<s, ins.new_incoming>>).connected_to_idx = ng
        /\ At(ins.after, <<ng, ins.new_outgoing>>).connected_to_idx = s

\* C25: the fan repair inserts no self-loop and no duplicate edge.  Every pair it
\* inserts joins the pivot to a different gvertex to which the pivot had no
\* connected LEI, no cycle walk inserts two pairs, and no gvertex ever holds two
\* inserted LEIs connected to the same gvertex.
C25_NoSelfLoopNoDuplicate ==
    /\ Repairing =>
           LET ins == RepairOf(loop).ins
           IN  /\ \A n \in 1 .. Len(ins) : JoinsNewNeighbour(ins[n])
               /\ \A a, b \in 1 .. Len(ins) : a # b => ins[a].walk # ins[b].walk
    /\ AfterConnections =>
           \A g \in 0 .. Len(gvertices_) - 1 :
               \A i, j \in 0 .. Len(GV(g).local_edges) - 1 :
                   /\ i # j /\ InsertedByRepair(LEI(g, i)) /\ InsertedByRepair(LEI(g, j))
                   => LEI(g, i).connected_to_idx # LEI(g, j).connected_to_idx

\* the references that the walk holds when the pair of ins is inserted point into
\* sequences that do not grow: current_outgoing_lei, the one reference that is
\* read after the insertions as it was taken before them (line 1069), is an LEI
\* of neither the pivot nor the closing gvertex
ReadsNoStaleReference(s, ng, current_from_gv) ==
    current_from_gv # s /\ current_from_gv # ng

C26_RepairReadsNoStaleReference ==
    Repairing =>
        \A n \in 1 .. Len(RepairOf(loop).ins) :
            ReadsNoStaleReference(RepairOf(loop).ins[n].start_gv_idx,
                                  RepairOf(loop).ins[n].next_gv,
                                  RepairOf(loop).ins[n].current_from_gv)

\* the cycle walk of face assembly that starts at the LEI (i, j)
FaceWalk(i, j) ==
    CycleWalk([gvs |-> gvertices_, vhs |-> << >>, leis |-> << >>, cg |-> i, co |-> j,
               closed |-> FALSE], i, 0)

\* the LEI lists that the next step of face assembly hands to add_face
HandedToAddFace ==
    IF pc = "gen_faces" /\ loop >= 1 /\ loop <= Len(LeiOrder(gvertices_))
    THEN LET i == LeiOrder(gvertices_)[loop][1]
             j == LeiOrder(gvertices_)[loop][2]
         IN  IF /\ ~LEI(i, j).face_constructed
                /\ FaceWalk(i, j).closed
                /\ Len(FaceWalk(i, j).vhs) > 2
             THEN {FaceWalk(i, j).leis}
             ELSE {}
    ELSE {}

\* b is the LEI one turn to the right of the peer of a
TurnsRight(a, b) ==
    b = Ref(gvertices_, At(gvertices_, a).connected_to_idx, At(gvertices_, a).orientation_idx - 1)

\* every LEI of the list but the last is followed by its turn to the right
OpenTurnRight(leis) == \A n \in 1 .. Len(leis) - 1 : TurnsRight(leis[n], leis[n + 1])

\* C27: every LEI list that face assembly hands to add_face is a closed
\* turn-right cycle of at least 3 LEIs: each LEI a of the list is followed (the
\* last one by the first) by the LEI of gvertex a.connected_to_idx at index
\* a.orientation_idx - 1 modulo the valence of that gvertex.
C27_ClosedTurnRightCycle ==
    \A leis \in HandedToAddFace :
        /\ Len(leis) >= 3
        /\ OpenTurnRight(leis)
        /\ TurnsRight(leis[Len(leis)], leis[1])

\* C27 as it holds: the list has at least 3 LEIs, each LEI but the last is
\* followed by its turn to the right, and the turn to the right of the last LEI
\* is an LEI of the start gvertex, the start LEI or another one.
C27_TurnRightPathBackToStartGvertex ==
    \A leis \in HandedToAddFace :
        /\ Len(leis) >= 3
        /\ OpenTurnRight(leis)
        /\ At(gvertices_, leis[Len(leis)]).connected_to_idx = leis[1][1]



\* the passes of the main walking loop of find_path from the state w on: for
\* each pass that reaches the test of uv_to against the triangle, the variables
\* of the loop at that test
RECURSIVE WalkPasses(_, _, _)
WalkPasses(w, walk_iterations, uvc) ==
    IF walk_iterations >= MaxWalkIterations \/ is_boundary_he(w.cur_heh) THEN << >>
    ELSE LET tri     == <<uvc[w.cur_heh], uvc[next_halfedge_handle(w.cur_heh)],
                          uvc[next_halfedge_handle(next_halfedge_handle(w.cur_heh))]>>
             tri_ori == TriOrientation(tri)
             swap    == PathSwapped(tri_ori, w.inverted)
             uv_from == IF swap THEN w.uv_to ELSE w.uv_from
             uv_to   == IF swap THEN w.uv_from ELSE w.uv_to
             heh_upd == WalkLeave(w.cur_heh, uv_from, uv_to, tri, tri_ori)
             tf      == transitionHE(heh_upd)
             crossed == IF heh_upd = -1 THEN w.crossed ELSE Append(w.crossed, heh_upd)
             here    == [cur_heh |-> w.cur_heh, tri |-> tri, tri_ori |-> tri_ori,
                         uv_from |-> uv_from, uv_original_from |-> w.uv_original_from,
                         uv_to |-> uv_to, accumulated_tf |-> w.accumulated_tf,
                         crossed |-> w.crossed,
                         bs |-> TriBoundedness(tri, uv_to),
                         heh_upd |-> heh_upd]
         IN  IF tri_ori = 0 /\ ~(tri[1] # tri[2] /\ tri[2] # tri[3] /\ tri[3] # tri[1])
             THEN << >>
             ELSE IF \/ TriBoundedness(tri, uv_to) \in {"in", "on"}
                     \/ heh_upd = -1
                     \/ ~edge_valid_[edge_handle(heh_upd)]
             THEN <<here>>
             ELSE <<here>> \o
                  WalkPasses([cur_heh |-> opposite_halfedge_handle(heh_upd),
                              uv_from |-> transform_point(tf, uv_from),
                              uv_original_from |-> transform_point(tf, w.uv_original_from),
                              uv_to |-> transform_point(tf, uv_to),
                              accumulated_tf |-> TFMul(tf, w.accumulated_tf),
                              inverted |-> (tri_ori = -1),
                              crossed |-> crossed],
                             walk_iterations + 1, uvc)

\* the passes of the trace of the LEI lei of gvertex gv; crossed lists the
\* halfedges crossed so far, the first crossing included
TracePasses(gv, lei, uvc) ==
    IF WalkStart(gv, lei, uvc) = << >> THEN << >>
    ELSE WalkPasses([cur_heh |-> WalkStart(gv, lei, uvc)[1].cur_heh,
                     uv_from |-> WalkStart(gv, lei, uvc)[1].uv_from,
                     uv_original_from |-> WalkStart(gv, lei, uvc)[1].uv_original_from,
                     uv_to |-> WalkStart(gv, lei, uvc)[1].uv_to,
                     accumulated_tf |-> WalkStart(gv, lei, uvc)[1].accumulated_tf,
                     inverted |-> WalkStart(gv, lei, uvc)[1].inverted,
                     crossed |-> <<opposite_halfedge_handle(WalkStart(gv, lei, uvc)[1].cur_heh)>>],
                    0, uvc)

TracedPasses == TracePasses(GV(TracedGv), LEI(TracedGv, TracedSlot), uv)

\* C28: at every pass of the trace loop, also in triangles of negative
\* orientation, the point tested for containment in the current triangle is
\* the image of the LEI's uv_intended_to in the current chart, and the local
\* connection is searched with that image as uv_to and the image of the LEI's
\* uv_from as uv_from.
C28_TestsIntendedEnd ==
    TraceStarts =>
        \A n \in 1 .. Len(TracedPasses) :
            /\ TracedPasses[n].uv_to
               = transform_point(TracedPasses[n].accumulated_tf,
                                 LEI(TracedGv, TracedSlot).uv_intended_to)
            /\ TracedPasses[n].uv_from
               = transform_point(TracedPasses[n].accumulated_tf,
                                 LEI(TracedGv, TracedSlot).uv_from)

\* the trace sees the path reversed in the pass p: the orientation of the
\* triangle of the pass is negative and that of the triangle in which the trace
\* started is not, or the other way round
SeenReversed(p) ==
    (p.tri_ori = -1) # (triangleUvOrientation(LEI(TracedGv, TracedSlot).fh_from, uv) = -1)

\* C28 as it holds: the point tested for containment is the image of the LEI's
\* uv_intended_to in the current chart, and the local connection is searched
\* from it towards the image of the LEI's uv_from, in the triangles whose
\* orientation is negative exactly if that of the start triangle is; in the
\* other triangles uv_from and uv_to are swapped, the point tested is the image
\* of the LEI's uv_from and the connection is searched from it towards the image
\* of uv_intended_to.
C28_TestsIntendedEndUnlessReversed ==
    TraceStarts =>
        \A n \in 1 .. Len(TracedPasses) :
            LET p      == TracedPasses[n]
                from   == transform_point(p.accumulated_tf, LEI(TracedGv, TracedSlot).uv_from)
                to     == transform_point(p.accumulated_tf,
                                          LEI(TracedGv, TracedSlot).uv_intended_to)
            IN  /\ p.uv_to = IF SeenReversed(p) THEN from ELSE to
                /\ p.uv_from = IF SeenReversed(p) THEN to ELSE from

\* the transitions of the halfedges hs composed in crossing order
RECURSIVE ComposedTransitions(_, _)
ComposedTransitions(hs, n) ==
    IF n = 0 THEN IDENTITY
    ELSE TFMul(transitionHE(hs[n]), ComposedTransitions(hs, n - 1))

\* the halfedge through which the trace of lei leaves its first triangle, -1 if
\* it does not leave it
FirstCrossed(gv, lei, uvc) ==
    LET heh0 == 3 * lei.fh_from
        heh1 == next_halfedge_handle(heh0)
        heh2 == next_halfedge_handle(heh1)
        tri  == <<uvc[heh0], uvc[heh1], uvc[heh2]>>
    IN  IF TriBoundedness(tri, lei.uv_intended_to) \in {"in", "on"} THEN -1
        ELSE FirstHalfedge(gv, lei, heh0, heh1, heh2, tri, uvc)

\* accumulated_tf, uv_original_from and the pair of uv_from and uv_to in the pass p
C29_Chart(lei, p) ==
    /\ p.accumulated_tf = ComposedTransitions(p.crossed, Len(p.crossed))
    /\ p.uv_original_from = transform_point(p.accumulated_tf, lei.uv_from)
    /\ {p.uv_from, p.uv_to} = {transform_point(p.accumulated_tf, lei.uv_from),
                               transform_point(p.accumulated_tf, lei.uv_intended_to)}

\* the trace is about to cross an edge with edge_valid = false, as its first
\* crossing or in the last pass of the loop
C29_CrossesInvalidEdge(gv, lei, passes) ==
    \/ /\ FirstCrossed(gv, lei, uv) # -1
       /\ ~edge_valid_[edge_handle(FirstCrossed(gv, lei, uv))]
    \/ /\ passes # << >>
       /\ passes[Len(passes)].bs = "out"
       /\ passes[Len(passes)].heh_upd # -1
       /\ ~edge_valid_[edge_handle(passes[Len(passes)].heh_upd)]

C29_Step ==
    TraceStarts =>
        /\ \A n \in 1 .. Len(TracedPasses) :
               C29_Chart(LEI(TracedGv, TracedSlot), TracedPasses[n])
        /\ C29_CrossesInvalidEdge(GV(TracedGv), LEI(TracedGv, TracedSlot), TracedPasses) =>
               /\ gvertices_'[TracedGv + 1].local_edges[TracedSlot + 1].connected_to_idx
                  = LECI_Traced_Into_Degeneracy
               /\ gvertices_'[TracedGv + 1].local_edges[TracedSlot + 1].accumulated_tf
                  = LEI(TracedGv, TracedSlot).accumulated_tf

\* C29: the chart invariant of the trace.  At every pass of the loop of
\* find_path accumulated_tf is the composition, in crossing order, of the
\* transitions of the edges crossed so far, uv_original_from is accumulated_tf
\* applied to the LEI's uv_from, and the pair {uv_from, uv_to} is accumulated_tf
\* applied to {LEI.uv_from, LEI.uv_intended_to}; a crossing of an edge with
\* edge_valid = false changes none of them and yields TracedIntoDegeneracy.
C29_TraceChartInvariant == [][C29_Step]_vars

\* from the end of gvertex generation to the end of the fan repair
GeneratedNotYetRepaired == pc \in {"gen_connections", "repair"}

\* C30: boundary gvertices need no repair.  In every state from the end of
\* gvertex generation to the end of the fan repair every gvertex whose
\* is_boundary flag is true has missing_leis = 0, also a gvertex that is flagged
\* only when one of its LEIs has traced into the boundary.
C30_BoundaryNeedsNoRepair ==
    GeneratedNotYetRepaired =>
        \A g \in 0 .. Len(gvertices_) - 1 : GV(g).is_boundary => GV(g).missing_leis = 0

\* the gvertex lies on the boundary of the input mesh: the flag that
\* generate_vertices gives it
AtInputBoundary(g) ==
    GV(g).type = "OnVertex" /\ is_boundary_vertex(to_vertex_handle(GV(g).heh))
\* generate_connections has flagged the gvertex: one of its LEIs has traced
\* into the boundary
FlaggedByTrace(g) ==
    \E j \in 1 .. Len(GV(g).local_edges) :
        GV(g).local_edges[j].connected_to_idx = LECI_Traced_Into_Boundary
\* C30 as the code has it: from the end of gvertex generation to the end of the
\* fan repair a gvertex on the boundary of the input mesh has missing_leis = 0;
\* a gvertex with is_boundary and missing_leis # 0 is one inside the input mesh
\* that was flagged when one of its LEIs traced into the boundary, and it keeps
\* the missing_leis that gvertex generation gave it.
C30_Step ==
    (GeneratedNotYetRepaired /\ GeneratedNotYetRepaired') =>
        \A g \in 0 .. Len(gvertices_) - 1 :
            (~GV(g).is_boundary /\ gvertices_'[g + 1].is_boundary) =>
                gvertices_'[g + 1].missing_leis = GV(g).missing_leis
C30_BoundaryAtGenerationNeedsNoRepair ==
    GeneratedNotYetRepaired =>
        \A g \in 0 .. Len(gvertices_) - 1 :
            /\ AtInputBoundary(g) => GV(g).is_boundary /\ GV(g).missing_leis = 0
            /\ (GV(g).is_boundary /\ GV(g).missing_leis # 0) =>
                   ~AtInputBoundary(g) /\ FlaggedByTrace(g)
C30_NoRepairAtInputBoundary ==
    []C30_BoundaryAtGenerationNeedsNoRepair /\ [][C30_Step]_vars

(***************************************************************************)
(* Reachable states in which the cases of the properties occur             *)
(***************************************************************************)
\* the connector has finished on a mesh on which it found a peer slot taken, and
\* two different gvertices are connected to each other
C1_ConnectedAfterPeerSlotTaken ==
    /\ AfterConnections
    /\ \E e \in log : e[1] = "peer slot taken"
    /\ \E s \in Slots :
           /\ isConnected(LEI(s[1], s[2]))
           /\ LEI(s[1], s[2]).connected_to_idx # s[1]

\* face assembly has finished, has created a face and has rejected a cycle as a
\* manifold violation
C2_FaceBesideRejectedCycle ==
    /\ AfterFaces
    /\ \E e \in log : e[1] = "skipping face"
    /\ \E h \in 0 .. Len(quad_mesh.he) - 1 : QFace(quad_mesh, h) # -1

C4_RepairedAndDone ==
    /\ pc = "done"
    /\ \E s \in AllLeis(gvertices_) :
           /\ isConnected(LEI(s[1], s[2]))
           /\ LEI(s[1], s[2]).uv_from = LEI(s[1], s[2]).uv_intended_to

\* the connector has connected two different gvertices over a path that crossed a
\* seam: the accumulated transition is not the identity
C5_ConnectedAcrossSeam ==
    /\ pc = "gen_connections"
    /\ \E s \in Slots :
           /\ isConnected(LEI(s[1], s[2]))
           /\ LEI(s[1], s[2]).connected_to_idx # s[1]
           /\ LEI(s[1], s[2]).accumulated_tf # IDENTITY

\* the transition of a seamless interior edge has been extracted, and it turns
\* and shifts
C6_TurnAndShiftExtracted ==
    /\ TransitionsExtracted
    /\ \E k \in 1 .. Len(Mesh.edges) :
           /\ ~is_boundary_edge(Mesh.edges[k])
           /\ SeamlessIntegerEdge(Mesh.edges[k])
           /\ tf_[Mesh.edges[k]].r # 0
           /\ <<tf_[Mesh.edges[k]].tu, tf_[Mesh.edges[k]].tv>> # <<0, 0>>

\* consistent_truncation has run on a mesh with an interior vertex whose
\* transition turns, and has moved the UV at its first incoming halfedge onto the
\* fixed point
C7_TurningVertexTruncated ==
    /\ Truncated
    /\ \E v \in InteriorVertices :
           /\ transitionV(v).r # 0
           /\ uv[Mesh.vih[v][1]] # Mesh.uv0[Mesh.vih[v][1]]
           /\ uv[Mesh.vih[v][1]] # <<0, 0>>
           /\ AnchorFixed(v)

C9_AssemblyGoesOnAfterRejection ==
    /\ pc = "gen_faces"
    /\ \E e \in log : e[1] = "skipping face"
    /\ loop < Len(LeiOrder(gvertices_))

\* the trace that runs next lands on the slot of an LEI that holds a sentinel
C10_TraceLandsOnSentinel ==
    /\ Tracing
    /\ isUnconnected(LEI(TracedGv, TracedSlot))
    /\ LEI(TracedGv, TracedSlot).fh_from >= 0
    /\ find_path(GV(TracedGv), LEI(TracedGv, TracedSlot), uv).connected_to_idx
           >= LECI_Connected_Thresh
    /\ IsSentinel(LEI(find_path(GV(TracedGv), LEI(TracedGv, TracedSlot), uv).connected_to_idx,
                      find_path(GV(TracedGv), LEI(TracedGv, TracedSlot), uv).orientation_idx))

\* the connector runs; the trace of an LEI has landed on a taken peer slot, and a
\* later trace has landed on that LEI's slot and connected it
C11_ResetSlotConnectedLater ==
    /\ pc = "gen_connections"
    /\ \E s \in ResetSlots :
           /\ isConnected(LEI(s[1], s[2]))
           /\ LEI(LEI(s[1], s[2]).connected_to_idx, LEI(s[1], s[2]).orientation_idx)
                  .connected_to_idx = s[1]

\* consistent_truncation has run on a mesh with an interior vertex whose
\* transition is a shift by one unit, has not reported it, and has moved the UV of
\* some halfedge in the propagation
C12_UnitShiftTruncated ==
    /\ Truncated
    /\ uv # Mesh.uv0
    /\ \E v \in InteriorVertices :
           /\ PureShift(transitionV(v))
           /\ Abs(transitionV(v).tu) + Abs(transitionV(v).tv) = 1
           /\ ~Reported(v)

\* the snap has replaced the u values of the two halfedges of the selected edge
\* by two different integers (no input is an integer) and has left the v values,
\* one of them 2e-4 from an integer, as they were
C14_SnappedToTwoIntegers ==
    /\ pc = "snapped"
    /\ Selected(SnapEdge)
    /\ uv[SnapEdge][1] = SnapUnit
    /\ uv[opposite_halfedge_handle(SnapEdge)][1] = 2 * SnapUnit
    /\ uv[SnapEdge][2] = SnapUnit + 4
    /\ uv[opposite_halfedge_handle(SnapEdge)][2] = SnapUnit - 1

\* C15: an interior edge with a lattice point strictly inside its UV segment
\* has its OnEdge gvertex, and the triangles on both sides are not degenerate
C15_InteriorEdgeLatticePoint ==
    /\ AfterGeneration
    /\ \E e \in EdgeSet :
           /\ ~is_boundary_he(opposite_halfedge_handle(e))
           /\ TriOrientation(FaceTri(uv, face_handle(e))) # 0
           /\ TriOrientation(FaceTri(uv, face_handle(opposite_halfedge_handle(e)))) # 0
           /\ \E p \in LatticePointsOn(uv[e], uv[prev_halfedge_handle(e)]) :
                  Cardinality(OnEdgeAt(e, p)) = 1

\* C16: a triangle of orientation zero with a lattice point strictly inside one
\* of its edges, which has its OnEdge gvertex
C16_ZeroTriangleWithEdgePoint ==
    /\ AfterGeneration
    /\ \E f \in ZeroTriangles : \E h \in {3 * f, 3 * f + 1, 3 * f + 2} :
           \E p \in LatticePointsOn(uv[h], uv[prev_halfedge_handle(h)]) :
               /\ edge_valid_[edge_handle(h)]
               /\ OnEdgeAt(edge_handle(h), InEdgeChart(h, p)) # {}

\* C17: a triangle of negative orientation with a lattice point strictly inside
\* it, where an OnFace gvertex was made
C17_FoldWithInsidePoint ==
    /\ AfterGeneration
    /\ \E f \in NegativeTriangles : \E p \in InsideLatticePoints(f) : OnFaceGVsAt(f, p) # {}

\* C18: after generation, an input with a vertex at a half-integer UV that has
\* no OnVertex gvertex and a vertex at an integer UV that has one
C18_HalfIntegerVertexSkipped ==
    /\ AfterGeneration
    /\ \E v, w \in 0 .. Mesh.nv - 1 :
           /\ ~IsLatticePoint(CanonicalUV(v)) /\ vertex_gvertices_[v] = << >>
           /\ IsLatticePoint(CanonicalUV(w)) /\ Len(vertex_gvertices_[w]) = 1

\* C20: only the first call reported decimation, and a gvertex has its 3D
\* position from the cache
C20_FirstCallDecimatedOnly ==
    /\ AfterGeneration
    /\ decimator_reports = <<TRUE, FALSE>>
    /\ \E g \in 1 .. Len(gvertices_) : FromCache(g)

\* C22: generate_connections has ended on an input where traces have found
\* peers, have run into the boundary and have run into a degeneracy
HoldsResult(s) ==
    \E g \in 1 .. Len(gvertices_) : \E k \in 1 .. Len(gvertices_[g].local_edges) :
        gvertices_[g].local_edges[k].connected_to_idx = s
C22_TracesOfEveryKind ==
    /\ pc = "repair" /\ loop = 0
    /\ HoldsResult(LECI_Traced_Into_Boundary)
    /\ HoldsResult(LECI_Traced_Into_Degeneracy)
    /\ \E g \in 1 .. Len(gvertices_) : \E k \in 1 .. Len(gvertices_[g].local_edges) :
           isConnected(gvertices_[g].local_edges[k])

\* the repair of a pivot that inserts a pair, whose new LEI the loop visits, and
\* that has a cycle walk of three or more steps
C24_RepairWithInsertionAndLongWalk ==
    /\ Repairing
    /\ Len(RepairOf(loop).ins) >= 1
    /\ \E k \in 0 .. Len(GV(loop).local_edges) - 1 :
           Cardinality(WalkRefs(gvertices_, loop, <<loop, k>>, 0)) >= 3

\* the repair is over and a gvertex holds an LEI that the repair inserted
C25_PairInserted ==
    /\ pc = "gen_faces"
    /\ \E g \in 0 .. Len(gvertices_) - 1 :
           \E j \in 0 .. Len(GV(g).local_edges) - 1 :
               InsertedByRepair(LEI(g, j)) /\ LEI(g, j).connected_to_idx # g

\* face assembly hands add_face a list whose walk came back to the start gvertex
\* through a slot other than the one in front of the start LEI
C27_BackThroughAnotherSlot ==
    \E leis \in HandedToAddFace : ~TurnsRight(leis[Len(leis)], leis[1])

\* a trace whose loop tests the image of uv_from in a triangle in which it sees
\* the path reversed, finds it in or on the triangle and searches the connection
C28_ReversedPassFindsEnd ==
    /\ TraceStarts
    /\ \E n \in 1 .. Len(TracedPasses) :
           /\ SeenReversed(TracedPasses[n])
           /\ TracedPasses[n].bs \in {"in", "on"}
           /\ LEI(TracedGv, TracedSlot).uv_from # LEI(TracedGv, TracedSlot).uv_intended_to

\* a trace that has crossed two edges, one of them a seam, and goes on
C29_TwoCrossingsThroughSeam ==
    /\ TraceStarts
    /\ \E n \in 1 .. Len(TracedPasses) :
           /\ Len(TracedPasses[n].crossed) >= 2
           /\ TracedPasses[n].accumulated_tf # IDENTITY
\* a trace stands in front of an edge with edge_valid = false
C29_InFrontOfInvalidEdge ==
    /\ TraceStarts
    /\ C29_CrossesInvalidEdge(GV(TracedGv), LEI(TracedGv, TracedSlot), TracedPasses)

\* C30: a gvertex inside the input mesh is flagged boundary by a trace into the
\* boundary and has missing_leis # 0, next to gvertices of the boundary with 0
C30_FlaggedLaterStillMissing ==
    /\ GeneratedNotYetRepaired
    /\ \E g \in 0 .. Len(gvertices_) - 1 :
           GV(g).is_boundary /\ GV(g).missing_leis # 0 /\ FlaggedByTrace(g)
    /\ \E g \in 0 .. Len(gvertices_) - 1 :
           AtInputBoundary(g) /\ GV(g).missing_leis = 0

=============================================================================
